---- MODULE Spec2Model ----
(***************************************************************************)
(* arch-cleaner: the scan -> suggest -> apply pipeline.                    *)
(*                                                                         *)
(* The state is the machine as one invocation after another sees it: the   *)
(* filesystem, the installed packages, the journal, the SQLite item store  *)
(* (scan_history, scanned_items, packages, action_feedback) and the        *)
(* last_suggestions.json artifact.  One action per controller / executor   *)
(* entry point; the invocations are sequential (section 5 of the design)   *)
(* except in SpecRace.                                                     *)
(*                                                                         *)
(* Strings that the code builds by formatting are sequences of tokens, so  *)
(* that concatenation is \o.  SHA-1 (truncated) is taken to be injective:  *)
(* a digest is the token sequence that was fed to the hasher.              *)
(* Confidence scores are integers scaled by ConfidenceScale.               *)
(*                                                                         *)
(* The specifications share the actions: Spec is the pipeline on a         *)
(* machine whose scans run without a fault; SpecScan is scanning alone,    *)
(* with a target directory, raising steps, failing batch writes and a      *)
(* killed process; SpecInputs starts from a store or an artifact drawn     *)
(* from bounded sets and runs the loader, the analysis, the recommender    *)
(* and the executor on it; SpecAuto is the pipeline ending in an           *)
(* unattended run.  SpecConfig builds the analyzer under the values its    *)
(* old-file threshold can be configured to.  SpecHome is the machine whose  *)
(* scanned directories hold last_suggestions.json itself.  SpecRace runs a  *)
(* scan process and the applies of another process on one store.  SpecHeld *)
(* hands the executor suggestions generated before files went away.        *)
(***************************************************************************)
EXTENDS Integers, Sequences, FiniteSets, TLC

VARIABLES
    fs,            \* paths that exist on the filesystem
    trash,         \* paths moved to the trash by trash-put
    unlinked,      \* paths permanently removed by the program (unlink / rm -f)
    installed,     \* packages pacman reports as installed
    journalSize,   \* disk usage journalctl reports
    use_trash_cfg, \* config value safety.use_trash (TRUE is also the default)
    HAS_TRASH_CLI, \* shutil.which("trash-put") found the utility
    scan_history,  \* table scan_history, in scan_id order
    scanned_items, \* table scanned_items, in rowid order
    packages,      \* table packages, in rowid order
    action_feedback, \* table action_feedback, in feedback_id order
    artifact,      \* last_suggestions.json: the list of JSON records
    scanning,      \* the scan process in flight: what it holds between its walk of
                   \* the filesystem and its batch write, or None
    last,          \* what the last operation was given and what it returned
    ops,           \* number of invocations so far
    ext            \* number of changes made by the outside world so far

vars == <<fs, trash, unlinked, installed, journalSize, use_trash_cfg, HAS_TRASH_CLI,
          scan_history, scanned_items, packages, action_feedback, artifact,
          scanning, last, ops, ext>>

world == <<fs, trash, unlinked, installed, journalSize>>
store == <<scan_history, scanned_items, packages, action_feedback>>

----------------------------------------------------------------------------
(* Bounds of the model.                                                    *)

MaxOps == 3
MaxExt == 1
MaxSel == 2
MaxLimit == 2
MaxScans == 2
MaxRecords == 2
MaxHomeOps == 2
MaxRaceOps == 2

----------------------------------------------------------------------------
(* The machine the model runs on.                                          *)

UserFiles == {"f1", "f2", "f3"}
CacheFiles == {"c10", "c11"}
JournalDir == "journal"
Paths == UserFiles \cup CacheFiles \cup {JournalDir}
Pkgs == {"p1", "p2"}

\* a socket in the home directory: os.walk lists it among the files
HomeSocket == "s1"
SocketWalk == <<"f1", "s1">>

\* last_suggestions.json: XDG_DATA_HOME lies under ~/.local/share, one of the
\* default paths.scan, and no default exclude pattern matches it
SuggestionsPath == "ls"
HomeWalk == <<"f1", "f3", "ls">>

\* Path.is_file() and Path.is_dir() of a path that exists
is_file(p) == p \notin {HomeSocket, JournalDir}
is_dir(p) == p = JournalDir

\* os.walk / glob order of a directory that does not change
WalkOrder == <<"f1", "f2", "f3">>
GlobOrder == <<"c10", "c11">>

\* a fuller cache directory, in glob order: three versions of pkg, one of q
CacheStock == <<"c10", "c11", "c12", "q10">>
PacmanOrder == <<"p1", "p2">>

\* the directory a user file lies in; d3 is the one a scan can be pointed at
Dirs == {"d3"}
DirOf(p) == IF p = "f3" THEN "d3" ELSE "home"

NoHash == "none"

\* st_size
StatSize(p) ==
    IF p \in {"f3", "q10"} THEN 3
    ELSE IF p \in {"f1", "f2", "c12"} THEN 2
    ELSE IF p = HomeSocket THEN 0 ELSE 1

\* the contents a user file can have: sha256 and size go together
Contents == {[hash |-> "h1", size |-> 2], [hash |-> "h2", size |-> 3],
             [hash |-> "h3", size |-> 4]}

MaxStatSize == CHOOSE m \in {c.size : c \in Contents} :
                   \A c \in Contents : c.size <= m

\* st_atime
StatAtime(p) ==
    IF p \in {"f1", HomeSocket, SuggestionsPath} THEN 8 ELSE IF p = "f2" THEN 9 ELSE 10

\* sha256 of the content: f1 and f2 are byte-identical
ContentHash(p) == IF p \in {"f1", "f2"} THEN "h1" ELSE IF p = "f3" THEN "h2" ELSE p

\* the clock read by time.time() during analysis
Now == 10

\* name and version parsed from a cache file name; versions as their rank in
\* string order
PkgFileName(c) == IF c = "q10" THEN "q" ELSE "pkg"
PkgFileVersion(c) == IF c \in {"c10", "q10"} THEN 10 ELSE IF c = "c11" THEN 11 ELSE 12

PkgSize(n) == 1

----------------------------------------------------------------------------
(* Configuration (defaults of DEFAULT_CONFIG, sizes scaled down).          *)

large_file_bytes == 3
old_file_seconds == 1
duplicate_min_bytes == 1
pacman_cache_keep == 1
journal_max_bytes == 1
learning_enabled == TRUE
duplicates_enabled == TRUE
clean_pacman_cache == TRUE
clean_journal == TRUE
remove_orphans == TRUE
ConfidenceScale == 365 * 100

----------------------------------------------------------------------------
(* Sequence helpers.                                                       *)

Range(s) == {s[i] : i \in DOMAIN s}

RECURSIVE SelectWhere(_, _)
\* the subsequence of s whose elements are in the set T
SelectWhere(s, T) ==
    IF s = <<>> THEN <<>>
    ELSE IF Head(s) \in T THEN <<Head(s)>> \o SelectWhere(Tail(s), T)
    ELSE SelectWhere(Tail(s), T)

RECURSIVE SumSeq(_)
SumSeq(s) == IF s = <<>> THEN 0 ELSE Head(s) + SumSeq(Tail(s))

Prefix(s, n) == IF n >= Len(s) THEN s ELSE SubSeq(s, 1, n)

Min2(a, b) == IF a <= b THEN a ELSE b
Max2(a, b) == IF a >= b THEN a ELSE b

\* list.sort(key, reverse=True): stable, descending by key
RECURSIVE InsertDesc(_, _, _)
InsertDesc(x, kx, s) ==
    IF s = <<>> THEN <<[k |-> kx, v |-> x]>>
    ELSE IF Head(s).k >= kx THEN <<Head(s)>> \o InsertDesc(x, kx, Tail(s))
    ELSE <<[k |-> kx, v |-> x]>> \o s

RECURSIVE SortDescKeyed(_)
SortDescKeyed(s) ==
    IF s = <<>> THEN <<>>
    ELSE LET n == Len(s)
         IN InsertDesc(s[n].v, s[n].k, SortDescKeyed(SubSeq(s, 1, n - 1)))

----------------------------------------------------------------------------
(* core/models.py: the records.  Every record carries its class in `kind`, *)
(* which is what isinstance() tests.                                       *)

ScannedItem(path, size_bytes, last_accessed, item_type, hash) ==
    [kind |-> "ScannedItem", path |-> path, size_bytes |-> size_bytes,
     last_accessed |-> last_accessed, item_type |-> item_type,
     extra_info |-> [hash |-> hash]]

PackageInfo(name, size_bytes, is_orphan) ==
    [kind |-> "PackageInfo", name |-> name, size_bytes |-> size_bytes,
     is_orphan |-> is_orphan]

DuplicateSet(file_hash, paths, size_bytes, total_size_bytes) ==
    [kind |-> "DuplicateSet", file_hash |-> file_hash, paths |-> paths,
     size_bytes |-> size_bytes, total_size_bytes |-> total_size_bytes]

\* a Python list, a Python dict of vacuum parameters, a Path, None
PyList(elems) == [kind |-> "list", elems |-> elems]
PyPath(p) == [kind |-> "Path", path |-> p]
VacuumParams(target_size) ==
    [kind |-> "dict", target_size |-> target_size, target_age |-> "None"]
PyNone == [kind |-> "None"]
PyStr(text) == [kind |-> "str", text |-> text]

Suggestion(id, suggestion_type, details, estimated_size_bytes, confidence, data) ==
    [id |-> id, suggestion_type |-> suggestion_type, details |-> details,
     estimated_size_bytes |-> estimated_size_bytes, confidence |-> confidence,
     data |-> data]

ActionResult(suggestion, success, message, bytes_freed, dry_run) ==
    [suggestion |-> suggestion, success |-> success, message |-> message,
     bytes_freed |-> bytes_freed, dry_run |-> dry_run]

\* ActionFeedback has exactly these four fields
ActionFeedback(suggestion_id, action_taken, user_comment) ==
    [suggestion_id |-> suggestion_id, action_taken |-> action_taken,
     timestamp |-> Now, user_comment |-> user_comment]

----------------------------------------------------------------------------
(* db/database.py: the item store.  A table is the sequence of its rows in *)
(* rowid order; INSERT OR REPLACE on a PRIMARY KEY deletes the row that    *)
(* holds the key and appends the new one.                                  *)

RowPaths(tbl) == {tbl[i].path : i \in DOMAIN tbl}

RECURSIVE DeleteWhere(_, _, _)
\* DELETE FROM tbl WHERE col = val
DeleteWhere(tbl, col, val) ==
    IF tbl = <<>> THEN <<>>
    ELSE IF Head(tbl)[col] = val THEN DeleteWhere(Tail(tbl), col, val)
    ELSE <<Head(tbl)>> \o DeleteWhere(Tail(tbl), col, val)

\* a plain INSERT: the row that holds the key stays
InsertOnly(tbl, key, row) == Append(tbl, row)

InsertOrReplace(tbl, key, row) == Append(DeleteWhere(tbl, key, row[key]), row)

ItemRow(item, scan_id) ==
    [path |-> item.path, scan_id |-> scan_id, size_bytes |-> item.size_bytes,
     last_accessed |-> item.last_accessed, item_type |-> item.item_type,
     file_hash |-> item.extra_info.hash, is_duplicate |-> FALSE]

RECURSIVE UpsertItems(_, _, _)
\* cursor.executemany("INSERT OR REPLACE INTO scanned_items ...", data)
UpsertItems(tbl, items, scan_id) ==
    IF items = <<>> THEN tbl
    ELSE UpsertItems(InsertOrReplace(tbl, "path", ItemRow(Head(items), scan_id)),
                     Tail(items), scan_id)

\* a batch whose rows written before the error stay in the table
add_scanned_items_batch_partial(tbl, items, scan_id, sql_error) ==
    IF sql_error THEN UpsertItems(tbl, Prefix(items, 1), scan_id)
    ELSE UpsertItems(tbl, items, scan_id)

\* the batch is one transaction (`with self.conn`): an sqlite3.Error rolls it
\* back, is logged by the except clause and is not raised again, so the caller
\* gets the same None in both cases
add_scanned_items_batch(tbl, items, scan_id, sql_error) ==
    IF sql_error THEN tbl ELSE UpsertItems(tbl, items, scan_id)

PackageRow(pkg, scan_id) ==
    [name |-> pkg.name, scan_id |-> scan_id, size_bytes |-> pkg.size_bytes,
     is_orphan |-> pkg.is_orphan]

RECURSIVE UpsertPackages(_, _, _)
UpsertPackages(tbl, pkgs, scan_id) ==
    IF pkgs = <<>> THEN tbl
    ELSE UpsertPackages(InsertOrReplace(tbl, "name", PackageRow(Head(pkgs), scan_id)),
                        Tail(pkgs), scan_id)

\* as add_scanned_items_batch: rolled back, logged, not raised
add_packages_batch(tbl, pkgs, scan_id, sql_error) ==
    IF sql_error THEN tbl ELSE UpsertPackages(tbl, pkgs, scan_id)

RECURSIVE get_scanned_items(_, _)
\* SELECT ... FROM scanned_items WHERE item_type = ?
get_scanned_items(tbl, item_type) ==
    IF tbl = <<>> THEN <<>>
    ELSE LET r == Head(tbl)
             rest == get_scanned_items(Tail(tbl), item_type)
         IN IF r.item_type = item_type
            THEN <<ScannedItem(r.path, r.size_bytes, r.last_accessed, r.item_type,
                               r.file_hash)>> \o rest
            ELSE rest

RECURSIVE get_packages(_, _)
get_packages(tbl, orphans_only) ==
    IF tbl = <<>> THEN <<>>
    ELSE LET r == Head(tbl)
             rest == get_packages(Tail(tbl), orphans_only)
         IN IF orphans_only => r.is_orphan
            THEN <<PackageInfo(r.name, r.size_bytes, r.is_orphan)>> \o rest
            ELSE rest

\* the (file_hash, size_bytes) groups with more than one row, GROUP BY order
HashOrder == <<"h1", "h2", "h3">>
GroupCount(tbl, h, sz) ==
    Cardinality({i \in DOMAIN tbl : tbl[i].file_hash = h /\ tbl[i].size_bytes = sz})

RECURSIVE GroupsFrom(_, _, _, _)
GroupsFrom(tbl, min_size, hi, sz) ==
    IF hi > Len(HashOrder) THEN <<>>
    ELSE IF sz > MaxStatSize THEN GroupsFrom(tbl, min_size, hi + 1, 1)
    ELSE LET n == GroupCount(tbl, HashOrder[hi], sz)
             rest == GroupsFrom(tbl, min_size, hi, sz + 1)
         IN IF n > 1 /\ sz >= min_size
            THEN <<[file_hash |-> HashOrder[hi], size_bytes |-> sz, count |-> n]>> \o rest
            ELSE rest

find_potential_duplicates(tbl, min_size) == GroupsFrom(tbl, min_size, 1, 1)

RECURSIVE get_files_by_hash(_, _)
\* SELECT path FROM scanned_items WHERE file_hash = ?
get_files_by_hash(tbl, file_hash) ==
    IF tbl = <<>> THEN <<>>
    ELSE IF Head(tbl).file_hash = file_hash
         THEN <<Head(tbl).path>> \o get_files_by_hash(Tail(tbl), file_hash)
         ELSE get_files_by_hash(Tail(tbl), file_hash)

\* UPDATE scanned_items SET is_duplicate = TRUE WHERE file_hash = ?
mark_duplicates(tbl, file_hash) ==
    [i \in DOMAIN tbl |->
        IF tbl[i].file_hash = file_hash
        THEN [tbl[i] EXCEPT !.is_duplicate = TRUE] ELSE tbl[i]]

\* a DELETE that removes no row
delete_scanned_item_keeping_row(tbl, path) == tbl

delete_scanned_item(tbl, path) == DeleteWhere(tbl, "path", path)
delete_package(tbl, name) == DeleteWhere(tbl, "name", name)

\* add_feedback reads feedback.suggestion_type and feedback.item_details before
\* it opens the transaction; a record without them raises AttributeError and
\* nothing is inserted.
add_feedback_raises(feedback) ==
    ~({"suggestion_type", "item_details"} \subseteq DOMAIN feedback)

add_feedback(tbl, feedback) ==
    IF add_feedback_raises(feedback) THEN tbl
    ELSE Append(tbl, [suggestion_id |-> feedback.suggestion_id,
                      suggestion_type |-> feedback.suggestion_type,
                      item_details |-> feedback.item_details,
                      action_taken |-> feedback.action_taken])


----------------------------------------------------------------------------
(* utils/helpers.py                                                        *)

\* below 1 KiB the text is "<n> B": one token that determines n
human_readable_size(size_bytes) ==
    IF size_bytes < 0 THEN "N/A" ELSE ToString(size_bytes)

get_age_seconds(timestamp) == Now - timestamp

----------------------------------------------------------------------------
(* modules/collection.py                                                   *)

ITEM_TYPE_FILE == "file"
ITEM_TYPE_PACMAN_CACHE == "pacman_cache"
ITEM_TYPE_JOURNAL_LOG == "journal_log"

_process_path(path, calculate_hashes, min_hash_size) ==
    ScannedItem(path, StatSize(path), StatAtime(path), ITEM_TYPE_FILE,
                IF calculate_hashes /\ StatSize(path) >= min_hash_size
                THEN ContentHash(path) ELSE NoHash)

RECURSIVE _scan_filesystem(_, _, _, _)
\* the files of the walk that exist, in walk order
_scan_filesystem(walk, files, calculate_hashes, min_hash_size) ==
    IF walk = <<>> THEN <<>>
    ELSE LET rest == _scan_filesystem(Tail(walk), files, calculate_hashes, min_hash_size)
         IN IF Head(walk) \in files
            THEN <<_process_path(Head(walk), calculate_hashes, min_hash_size)>> \o rest
            ELSE rest

RECURSIVE _collect_package_info(_, _)
\* pacman -Q, with the orphans of pacman -Qtdq flagged
_collect_package_info(listing, inst) ==
    IF listing = <<>> THEN <<>>
    ELSE LET rest == _collect_package_info(Tail(listing), inst)
         IN IF Head(listing) \in inst
            THEN <<PackageInfo(Head(listing), PkgSize(Head(listing)), TRUE)>> \o rest
            ELSE rest

RECURSIVE _collect_pacman_cache_info(_, _)
_collect_pacman_cache_info(listing, files) ==
    IF listing = <<>> THEN <<>>
    ELSE LET rest == _collect_pacman_cache_info(Tail(listing), files)
         IN IF Head(listing) \in files
            THEN <<ScannedItem(Head(listing), StatSize(Head(listing)),
                               StatAtime(Head(listing)), ITEM_TYPE_PACMAN_CACHE,
                               NoHash)>> \o rest
            ELSE rest

\* one item for the journal directory, sized by journalctl --disk-usage
_collect_journal_info(files, total_size) ==
    IF JournalDir \in files
    THEN <<ScannedItem(JournalDir, total_size, StatAtime(JournalDir),
                       ITEM_TYPE_JOURNAL_LOG, NoHash)>>
    ELSE <<>>

RECURSIVE MarkAll(_, _)
MarkAll(tbl, groups) ==
    IF groups = <<>> THEN tbl
    ELSE MarkAll(mark_duplicates(tbl, Head(groups).file_hash), Tail(groups))

_mark_duplicates_in_db(tbl, min_size) ==
    MarkAll(tbl, find_potential_duplicates(tbl, min_size))

\* the steps of collect_all in program order, the write of the scan epoch's
\* end last
StepOrder == <<"fs", "pkg", "cache", "journal", "dup", "end">>

StepIndex(step) == CHOOSE i \in DOMAIN StepOrder : StepOrder[i] = step

\* what can go wrong during one collect_all: the step whose code raises, the
\* step whose batch write gets an sqlite3.Error, the step during which the
\* process is killed ("none" and "never": nothing goes wrong)
NoScanFault == [raises |-> "none", sql_error |-> "none", killed |-> "never"]

\* the step's transaction is committed: the process is killed later or never
Committed(env, step) ==
    env.killed = "never" \/ StepIndex(step) < StepIndex(env.killed)

\* f"{label}: {e}"
ErrorText(label, step) == <<label, "e_" \o step>>

\* the files under the ad-hoc target directory, in walk order
RECURSIVE WalkOf(_, _)
WalkOf(walk, target_directory) ==
    IF walk = <<>> THEN <<>>
    ELSE IF DirOf(Head(walk)) = target_directory
         THEN <<Head(walk)>> \o WalkOf(Tail(walk), target_directory)
         ELSE WalkOf(Tail(walk), target_directory)

\* collect_all after start_collection returned a scan id: the tables as the
\* store shows them afterwards, whether end_scan was reached, and its arguments
collect_all(items0, pkgs0, scan_id, files, inst, jsize, target_directory, env) ==
    LET is_targeted_scan == target_directory.kind # "None"
        invalid_target == is_targeted_scan /\ target_directory.path \notin Dirs
        scan_paths == IF is_targeted_scan THEN WalkOf(WalkOrder, target_directory.path)
                      ELSE WalkOrder
        should_hash == duplicates_enabled
        min_hash_size == duplicate_min_bytes
        Raises(step) == env.raises = step
        SqlError(step) == env.sql_error = step
        \* 1. filesystem
        items == IF Raises("fs") THEN <<>>
                 ELSE _scan_filesystem(scan_paths, files, should_hash, min_hash_size)
        t1 == IF items # <<>> /\ Committed(env, "fs")
              THEN add_scanned_items_batch(items0, items, scan_id, SqlError("fs"))
              ELSE items0
        e1 == IF Raises("fs") THEN ErrorText("Filesystem Scan Error", "fs") ELSE <<>>
        \* 2. packages
        pkgs == IF is_targeted_scan \/ Raises("pkg") THEN <<>>
                ELSE _collect_package_info(PacmanOrder, inst)
        p1 == IF pkgs # <<>> /\ Committed(env, "pkg")
              THEN add_packages_batch(pkgs0, pkgs, scan_id, SqlError("pkg"))
              ELSE pkgs0
        e2 == IF ~is_targeted_scan /\ Raises("pkg")
              THEN ErrorText("Package Info Error", "pkg") ELSE <<>>
        \* 3. pacman cache
        run_cache == ~is_targeted_scan /\ clean_pacman_cache
        cache_items == IF ~run_cache \/ Raises("cache") THEN <<>>
                       ELSE _collect_pacman_cache_info(GlobOrder, files)
        t2 == IF cache_items # <<>> /\ Committed(env, "cache")
              THEN add_scanned_items_batch(t1, cache_items, scan_id, SqlError("cache"))
              ELSE t1
        e3 == IF run_cache /\ Raises("cache")
              THEN ErrorText("Pacman Cache Error", "cache") ELSE <<>>
        \* 4. journal
        run_journal == ~is_targeted_scan /\ clean_journal
        journal_items == IF ~run_journal \/ Raises("journal") THEN <<>>
                         ELSE _collect_journal_info(files, jsize)
        t3 == IF journal_items # <<>> /\ Committed(env, "journal")
              THEN add_scanned_items_batch(t2, journal_items, scan_id,
                                           SqlError("journal"))
              ELSE t2
        e4 == IF run_journal /\ Raises("journal")
              THEN ErrorText("Journal Info Error", "journal") ELSE <<>>
        \* 5. duplicate marking
        t4 == IF should_hash /\ ~Raises("dup") /\ Committed(env, "dup")
              THEN _mark_duplicates_in_db(t3, min_hash_size) ELSE t3
        e5 == IF should_hash /\ Raises("dup")
              THEN ErrorText("Duplicate Marking Error", "dup") ELSE <<>>
        errors == e1 \o e2 \o e3 \o e4 \o e5
    IN IF invalid_target
       THEN [scanned_items |-> items0, packages |-> pkgs0,
             ended |-> Committed(env, "end"), items_found |-> 0,
             errors |-> PyStr(<<"Target directory not valid">>)]
       ELSE [scanned_items |-> t4, packages |-> p1,
             ended |-> Committed(env, "end"),
             items_found |-> Len(items) + Len(cache_items) + Len(journal_items),
             errors |-> IF errors # <<>> THEN PyStr(errors) ELSE PyNone]

----------------------------------------------------------------------------
(* modules/analysis.py                                                     *)

RECURSIVE _find_old_files_inclusive(_)
\* a file accessed exactly at the cutoff counts as old
_find_old_files_inclusive(files) ==
    IF files = <<>> THEN <<>>
    ELSE IF Head(files).last_accessed <= Now - old_file_seconds
         THEN <<Head(files)>> \o _find_old_files_inclusive(Tail(files))
         ELSE _find_old_files_inclusive(Tail(files))

RECURSIVE _find_old_files(_)
_find_old_files(files) ==
    IF files = <<>> THEN <<>>
    ELSE IF Head(files).last_accessed < Now - old_file_seconds
         THEN <<Head(files)>> \o _find_old_files(Tail(files))
         ELSE _find_old_files(Tail(files))

RECURSIVE LargeKeyed(_)
LargeKeyed(files) ==
    IF files = <<>> THEN <<>>
    ELSE IF Head(files).size_bytes >= large_file_bytes
         THEN <<[k |-> Head(files).size_bytes, v |-> Head(files)]>> \o LargeKeyed(Tail(files))
         ELSE LargeKeyed(Tail(files))

Values(keyed) == [i \in DOMAIN keyed |-> keyed[i].v]

\* the large files in the order of the query
_find_large_files_unsorted(files) == Values(LargeKeyed(files))

_find_large_files(files) == Values(SortDescKeyed(LargeKeyed(files)))

RECURSIVE DupSetsFrom(_, _, _, _)
DupSetsFrom(tbl, files, groups, processed_hashes) ==
    IF groups = <<>> THEN <<>>
    ELSE LET g == Head(groups)
             paths == get_files_by_hash(tbl, g.file_hash)
             valid_paths == SelectWhere(paths, files)
         IN IF g.file_hash \in processed_hashes
            THEN DupSetsFrom(tbl, files, Tail(groups), processed_hashes)
            ELSE IF Len(paths) > 1 /\ Len(valid_paths) > 1
            THEN <<[k |-> g.size_bytes * Len(valid_paths),
                    v |-> DuplicateSet(g.file_hash, valid_paths, g.size_bytes,
                                       g.size_bytes * Len(valid_paths))]>>
                 \o DupSetsFrom(tbl, files, Tail(groups),
                                processed_hashes \cup {g.file_hash})
            ELSE DupSetsFrom(tbl, files, Tail(groups), processed_hashes)

\* every stored path counts as existing
_find_duplicate_sets_unchecked(tbl, files) ==
    Values(SortDescKeyed(
        DupSetsFrom(tbl, Paths, find_potential_duplicates(tbl, duplicate_min_bytes), {})))

_find_duplicate_sets(tbl, files) ==
    Values(SortDescKeyed(
        DupSetsFrom(tbl, files, find_potential_duplicates(tbl, duplicate_min_bytes), {})))

analyze_all(items, pkgs, files) ==
    LET all_files == get_scanned_items(items, ITEM_TYPE_FILE)
    IN [old_files |-> _find_old_files(all_files),
        large_files |-> _find_large_files(all_files),
        orphan_packages |-> IF remove_orphans THEN get_packages(pkgs, TRUE) ELSE <<>>,
        duplicate_sets |-> IF duplicates_enabled THEN _find_duplicate_sets(items, files)
                           ELSE <<>>,
        pacman_cache_files |-> IF clean_pacman_cache
                               THEN get_scanned_items(items, ITEM_TYPE_PACMAN_CACHE)
                               ELSE <<>>,
        journal_logs |-> IF clean_journal
                         THEN get_scanned_items(items, ITEM_TYPE_JOURNAL_LOG) ELSE <<>>]


----------------------------------------------------------------------------
(* modules/recommendation.py                                               *)

SUGGESTION_OLD_FILE == "OLD_FILE"
SUGGESTION_LARGE_FILE == "LARGE_FILE"
SUGGESTION_ORPHAN_PACKAGE == "ORPHAN_PACKAGE"
SUGGESTION_DUPLICATE_SET == "DUPLICATE_SET"
SUGGESTION_PACMAN_CACHE == "PACMAN_CACHE"
SUGGESTION_JOURNAL_LOG == "JOURNAL_LOG"

SuggestionTypes ==
    {SUGGESTION_OLD_FILE, SUGGESTION_LARGE_FILE, SUGGESTION_ORPHAN_PACKAGE,
     SUGGESTION_DUPLICATE_SET, SUGGESTION_PACMAN_CACHE, SUGGESTION_JOURNAL_LOG}

\* sha1(suggestion_type + details).hexdigest()[:10]
_generate_suggestion_id(suggestion_type, details) == <<suggestion_type>> \o details

Confidence(hundredths) == hundredths * 365

RECURSIVE _generate_old_file_suggestions(_)
_generate_old_file_suggestions(old_files) ==
    IF old_files = <<>> THEN <<>>
    ELSE LET item == Head(old_files)
             age_days == get_age_seconds(item.last_accessed) \div 86400
             details == <<item.path>>
             confidence == Min2(Confidence(50) + age_days * 40, Confidence(90))
         IN <<Suggestion(_generate_suggestion_id(SUGGESTION_OLD_FILE, details),
                         SUGGESTION_OLD_FILE, details, item.size_bytes, confidence,
                         item)>>
            \o _generate_old_file_suggestions(Tail(old_files))

RECURSIVE _generate_large_file_suggestions(_)
_generate_large_file_suggestions(large_files) ==
    IF large_files = <<>> THEN <<>>
    ELSE LET item == Head(large_files)
             details == <<item.path>>
         IN <<Suggestion(_generate_suggestion_id(SUGGESTION_LARGE_FILE, details),
                         SUGGESTION_LARGE_FILE, details, item.size_bytes,
                         Confidence(30), item)>>
            \o _generate_large_file_suggestions(Tail(large_files))

Names(pkgs) == [i \in DOMAIN pkgs |-> pkgs[i].name]
Sizes(recs) == [i \in DOMAIN recs |-> recs[i].size_bytes]

\* ", ".join(sorted(names)): PacmanOrder lists the names in string order
SortedJoin(names) == SelectWhere(PacmanOrder, Range(names))

_generate_orphan_package_suggestions(orphans) ==
    IF orphans = <<>> THEN <<>>
    ELSE LET total_size == SumSeq(Sizes(orphans))
             details == SortedJoin(Names(orphans))
         IN <<Suggestion(_generate_suggestion_id(SUGGESTION_ORPHAN_PACKAGE,
                                                 <<"all_orphans">>),
                         SUGGESTION_ORPHAN_PACKAGE, details, total_size,
                         Confidence(80), PyList(orphans))>>

RECURSIVE _generate_duplicate_set_suggestions(_)
_generate_duplicate_set_suggestions(duplicate_sets) ==
    IF duplicate_sets = <<>> THEN <<>>
    ELSE LET dup_set == Head(duplicate_sets)
             num_files == Len(dup_set.paths)
             potential_saving == (num_files - 1) * dup_set.size_bytes
             paths_preview == Prefix(dup_set.paths, 3)
                              \o (IF Len(dup_set.paths) > 3 THEN <<"...">> ELSE <<>>)
             details == <<ToString(num_files), "files",
                          human_readable_size(dup_set.size_bytes), "each", "Hash",
                          dup_set.file_hash, "Locations">> \o paths_preview
             rest == _generate_duplicate_set_suggestions(Tail(duplicate_sets))
         IN IF potential_saving <= 0 THEN rest
            ELSE <<Suggestion(_generate_suggestion_id(SUGGESTION_DUPLICATE_SET,
                                                      <<dup_set.file_hash>>),
                              SUGGESTION_DUPLICATE_SET, details, potential_saving,
                              Confidence(70), dup_set)>> \o rest

RECURSIVE PkgNamesInOrder(_, _)
\* the keys of the dict `packages`, in insertion order
PkgNamesInOrder(cache_files, seen) ==
    IF cache_files = <<>> THEN <<>>
    ELSE LET name == PkgFileName(Head(cache_files).path)
         IN IF name \in seen THEN PkgNamesInOrder(Tail(cache_files), seen)
            ELSE <<name>> \o PkgNamesInOrder(Tail(cache_files), seen \cup {name})

RECURSIVE VersionsOf(_, _)
VersionsOf(cache_files, name) ==
    IF cache_files = <<>> THEN <<>>
    ELSE LET item == Head(cache_files)
             rest == VersionsOf(Tail(cache_files), name)
         IN IF PkgFileName(item.path) = name
            THEN <<[k |-> PkgFileVersion(item.path),
                    v |-> [path |-> item.path, size_bytes |-> item.size_bytes]]>> \o rest
            ELSE rest

RECURSIVE FilesToRemove_unsorted(_, _)
\* the versions of a package in the order of the query
FilesToRemove_unsorted(cache_files, names) ==
    IF names = <<>> THEN <<>>
    ELSE LET versions == Values(VersionsOf(cache_files, Head(names)))
             keep_count == Max2(1, pacman_cache_keep)
         IN (IF Len(versions) > keep_count
             THEN SubSeq(versions, keep_count + 1, Len(versions)) ELSE <<>>)
            \o FilesToRemove_unsorted(cache_files, Tail(names))

RECURSIVE FilesToRemove(_, _)
FilesToRemove(cache_files, names) ==
    IF names = <<>> THEN <<>>
    ELSE LET versions == Values(SortDescKeyed(VersionsOf(cache_files, Head(names))))
             keep_count == Max2(1, pacman_cache_keep)
         IN (IF Len(versions) > keep_count
             THEN SubSeq(versions, keep_count + 1, Len(versions)) ELSE <<>>)
            \o FilesToRemove(cache_files, Tail(names))

_generate_pacman_cache_suggestions(cache_files) ==
    IF cache_files = <<>> THEN <<>>
    ELSE LET total_size == SumSeq(Sizes(cache_files))
             files_to_remove == FilesToRemove(cache_files,
                                              PkgNamesInOrder(cache_files, {}))
             removable_size == SumSeq(Sizes(files_to_remove))
             num_files == Len(files_to_remove)
             details == <<ToString(num_files), "older package versions",
                          "Total cache size", human_readable_size(total_size)>>
         IN IF files_to_remove = <<>> THEN <<>>
            ELSE <<Suggestion(_generate_suggestion_id(SUGGESTION_PACMAN_CACHE,
                                                      <<"older_versions">>),
                              SUGGESTION_PACMAN_CACHE, details, removable_size,
                              Confidence(90),
                              PyList([i \in DOMAIN files_to_remove |->
                                         PyPath(files_to_remove[i].path)]))>>

_generate_journal_log_suggestions(journal_items) ==
    IF journal_items = <<>> THEN <<>>
    ELSE LET current_size == journal_items[1].size_bytes
             estimated_saving == current_size - journal_max_bytes
             details == <<"Current size", human_readable_size(current_size),
                          "Target size", human_readable_size(journal_max_bytes)>>
         IN IF current_size > journal_max_bytes
            THEN <<Suggestion(_generate_suggestion_id(SUGGESTION_JOURNAL_LOG,
                                                      <<"vacuum_size">>),
                              SUGGESTION_JOURNAL_LOG, details,
                              Max2(0, estimated_saving), Confidence(80),
                              VacuumParams(journal_max_bytes))>>
            ELSE <<>>

\* the suggestions in the order of the generators, without the final sort
generate_suggestions_unsorted(analysis_results) ==
    _generate_old_file_suggestions(analysis_results.old_files)
    \o _generate_large_file_suggestions(analysis_results.large_files)
    \o _generate_orphan_package_suggestions(analysis_results.orphan_packages)
    \o _generate_duplicate_set_suggestions(analysis_results.duplicate_sets)
    \o _generate_pacman_cache_suggestions(analysis_results.pacman_cache_files)
    \o _generate_journal_log_suggestions(analysis_results.journal_logs)

generate_suggestions(analysis_results) ==
    LET suggestions ==
            _generate_old_file_suggestions(analysis_results.old_files)
            \o _generate_large_file_suggestions(analysis_results.large_files)
            \o _generate_orphan_package_suggestions(analysis_results.orphan_packages)
            \o _generate_duplicate_set_suggestions(analysis_results.duplicate_sets)
            \o _generate_pacman_cache_suggestions(analysis_results.pacman_cache_files)
            \o _generate_journal_log_suggestions(analysis_results.journal_logs)
    IN Values(SortDescKeyed([i \in DOMAIN suggestions |->
                  [k |-> suggestions[i].estimated_size_bytes, v |-> suggestions[i]]]))


----------------------------------------------------------------------------
(* modules/execution.py                                                    *)
(*                                                                         *)
(* A machine state m is [fs, trash, unlinked, installed, journalSize,      *)
(* scanned_items, packages, commands]; commands is the list of the command *)
(* lines handed to run_command during the call.  env is what the outside   *)
(* world answers during                                                    *)
(* one call: failOn, the paths whose removal (trash-put, unlink) fails;    *)
(* raiseOn, the paths on which Path.resolve() raises; cmdFail, the         *)
(* external commands that exit non-zero.                                   *)

Msg(text, arg) == <<text, arg>>

\* run_command(command): the command line joins the list of those issued
run_command(m, cmd, args) ==
    [m EXCEPT !.commands = Append(@, [cmd |-> cmd, args |-> args])]

\* ExecutionHandler.__init__
use_trash(cfg, has_cli) == cfg /\ has_cli

\* _safe_delete without its dry-run branch
_safe_delete_ignoring_dry_run(m, path, dry_run, useTrash, env) ==
    IF path \in env.raiseOn
    THEN [m |-> m, raised |-> TRUE, success |-> FALSE, message |-> Msg("raised", path)]
    ELSE IF path \notin m.fs
    THEN [m |-> m, raised |-> FALSE, success |-> TRUE,
          message |-> Msg("already gone", path)]
    ELSE IF useTrash
    THEN [m |-> [m EXCEPT !.fs = @ \ {path}, !.trash = @ \cup {path}],
          raised |-> FALSE, success |-> TRUE, message |-> Msg("Moved to trash", path)]
    ELSE [m |-> [m EXCEPT !.fs = @ \ {path}, !.unlinked = @ \cup {path}],
          raised |-> FALSE, success |-> TRUE, message |-> Msg("Permanently deleted", path)]

\* _safe_delete that unlinks when trash-put fails
_safe_delete_with_fallback(m, path, dry_run, useTrash, env) ==
    IF path \in env.raiseOn
    THEN [m |-> m, raised |-> TRUE, success |-> FALSE, message |-> Msg("raised", path)]
    ELSE IF path \notin m.fs
    THEN [m |-> m, raised |-> FALSE, success |-> TRUE,
          message |-> Msg("already gone", path)]
    ELSE IF dry_run
    THEN [m |-> m, raised |-> FALSE, success |-> TRUE,
          message |-> Msg(IF useTrash THEN "Simulated trash of" ELSE "Simulated delete of",
                          path)]
    ELSE IF useTrash /\ path \notin env.failOn
    THEN [m |-> [m EXCEPT !.fs = @ \ {path}, !.trash = @ \cup {path}],
          raised |-> FALSE, success |-> TRUE, message |-> Msg("Moved to trash", path)]
    ELSE [m |-> [m EXCEPT !.fs = @ \ {path}, !.unlinked = @ \cup {path}],
          raised |-> FALSE, success |-> TRUE, message |-> Msg("Permanently deleted", path)]

\* _safe_delete that reports a path that is gone as an error
_safe_delete_missing_is_error(m, path, dry_run, useTrash, env) ==
    IF path \in env.raiseOn
    THEN [m |-> m, raised |-> TRUE, success |-> FALSE, message |-> Msg("raised", path)]
    ELSE IF path \notin m.fs
    THEN [m |-> m, raised |-> FALSE, success |-> FALSE,
          message |-> Msg("Error deleting", path)]
    ELSE IF dry_run
    THEN [m |-> m, raised |-> FALSE, success |-> TRUE,
          message |-> Msg(IF useTrash THEN "Simulated trash of" ELSE "Simulated delete of",
                          path)]
    ELSE IF useTrash
    THEN IF path \notin env.failOn
         THEN [m |-> [run_command(m, "trash-put", <<path>>)
                             EXCEPT !.fs = @ \ {path}, !.trash = @ \cup {path}],
               raised |-> FALSE, success |-> TRUE, message |-> Msg("Moved to trash", path)]
         ELSE [m |-> run_command(m, "trash-put", <<path>>), raised |-> FALSE,
               success |-> FALSE, message |-> Msg("Failed to move to trash", path)]
    ELSE IF ~is_file(path) /\ ~is_dir(path)
         THEN [m |-> m, raised |-> FALSE, success |-> TRUE,
               message |-> Msg("Permanently deleted", path)]
    ELSE IF path \notin env.failOn
         THEN [m |-> [m EXCEPT !.fs = @ \ {path}, !.unlinked = @ \cup {path}],
               raised |-> FALSE, success |-> TRUE,
               message |-> Msg("Permanently deleted", path)]
         ELSE [m |-> m, raised |-> FALSE, success |-> FALSE,
               message |-> Msg("Error deleting", path)]

\* [m, raised, success, message]
_safe_delete(m, path, dry_run, useTrash, env) ==
    IF path \in env.raiseOn
    THEN [m |-> m, raised |-> TRUE, success |-> FALSE, message |-> Msg("raised", path)]
    ELSE IF path \notin m.fs
    THEN [m |-> m, raised |-> FALSE, success |-> TRUE,
          message |-> Msg("already gone", path)]
    ELSE IF dry_run
    THEN [m |-> m, raised |-> FALSE, success |-> TRUE,
          message |-> Msg(IF useTrash THEN "Simulated trash of" ELSE "Simulated delete of",
                          path)]
    ELSE IF useTrash
    THEN IF path \notin env.failOn
         THEN [m |-> [run_command(m, "trash-put", <<path>>)
                             EXCEPT !.fs = @ \ {path}, !.trash = @ \cup {path}],
               raised |-> FALSE, success |-> TRUE, message |-> Msg("Moved to trash", path)]
         ELSE [m |-> run_command(m, "trash-put", <<path>>), raised |-> FALSE,
               success |-> FALSE, message |-> Msg("Failed to move to trash", path)]
    ELSE IF ~is_file(path) /\ ~is_dir(path)
         THEN [m |-> m, raised |-> FALSE, success |-> TRUE,
               message |-> Msg("Permanently deleted", path)]
    ELSE IF path \notin env.failOn
         THEN [m |-> [m EXCEPT !.fs = @ \ {path}, !.unlinked = @ \cup {path}],
               raised |-> FALSE, success |-> TRUE,
               message |-> Msg("Permanently deleted", path)]
         ELSE [m |-> m, raised |-> FALSE, success |-> FALSE,
               message |-> Msg("Error deleting", path)]

\* what a handler hands back: the machine, whether it raised, and its ActionResult
Returned(m, suggestion, success, message, bytes_freed, dry_run) ==
    [m |-> m, raised |-> FALSE,
     result |-> ActionResult(suggestion, success, message, bytes_freed, dry_run)]

Raised(m, suggestion, message, dry_run) ==
    [m |-> m, raised |-> TRUE,
     result |-> ActionResult(suggestion, FALSE, message, 0, dry_run)]

_handle_old_file(m, suggestion, dry_run, useTrash, env) ==
    LET item == suggestion.data
    IN IF item.kind # "ScannedItem"
       THEN Returned(m, suggestion, FALSE, <<"Invalid data type for OLD_FILE">>, 0, dry_run)
       ELSE LET d == _safe_delete(m, item.path, dry_run, useTrash, env)
                bytes_freed == IF d.success THEN item.size_bytes ELSE 0
                m2 == IF d.success /\ ~dry_run
                      THEN [d.m EXCEPT !.scanned_items = delete_scanned_item(@, item.path)]
                      ELSE d.m
            IN IF d.raised THEN Raised(d.m, suggestion, d.message, dry_run)
               ELSE Returned(m2, suggestion, d.success, d.message, bytes_freed, dry_run)

_handle_large_file(m, suggestion, dry_run, useTrash, env) ==
    _handle_old_file(m, suggestion, dry_run, useTrash, env)

IsListOf(data, kind) ==
    data.kind = "list" /\ \A i \in DOMAIN data.elems : data.elems[i].kind = kind

RECURSIVE DeletePackages(_, _)
DeletePackages(tbl, names) ==
    IF names = <<>> THEN tbl
    ELSE DeletePackages(delete_package(tbl, Head(names)), Tail(names))

_handle_orphan_package(m, suggestion, dry_run, env) ==
    LET orphans == suggestion.data
    IN IF ~IsListOf(orphans, "PackageInfo")
       THEN Returned(m, suggestion, FALSE, <<"Invalid data type for ORPHAN_PACKAGE">>, 0,
                     dry_run)
       ELSE IF orphans.elems = <<>>
       THEN Returned(m, suggestion, TRUE, <<"No orphan packages specified.">>, 0, dry_run)
       ELSE LET package_names == Names(orphans.elems)
                n == ToString(Len(package_names))
            IN IF dry_run
               THEN Returned(m, suggestion, TRUE, Msg("Simulated removal of orphans", n),
                             suggestion.estimated_size_bytes, TRUE)
               ELSE IF "pacman" \notin env.cmdFail
               THEN Returned([run_command(m, "pacman", package_names)
                                 EXCEPT !.installed = @ \ Range(package_names),
                                        !.packages = DeletePackages(@, package_names)],
                             suggestion, TRUE, Msg("Successfully removed orphans", n),
                             suggestion.estimated_size_bytes, FALSE)
               ELSE Returned(run_command(m, "pacman", package_names), suggestion, FALSE,
                             <<"Failed to remove orphans">>, 0, FALSE)

RECURSIVE RemoveDuplicates_dropping_rows(_, _, _, _, _, _)
\* the loop deleting the row of every path it tried
RemoveDuplicates_dropping_rows(acc, paths, size_bytes, dry_run, useTrash, env) ==
    IF paths = <<>> \/ acc.raised THEN acc
    ELSE LET d == _safe_delete(acc.m, Head(paths), dry_run, useTrash, env)
             m2 == IF ~d.raised /\ ~dry_run
                   THEN [d.m EXCEPT !.scanned_items = delete_scanned_item(@, Head(paths))]
                   ELSE d.m
         IN RemoveDuplicates_dropping_rows(
                [m |-> m2, raised |-> d.raised,
                 success_count |-> acc.success_count + (IF d.success THEN 1 ELSE 0),
                 total_bytes_freed |-> acc.total_bytes_freed
                                       + (IF d.success THEN size_bytes ELSE 0),
                 messages |-> acc.messages \o d.message],
                Tail(paths), size_bytes, dry_run, useTrash, env)

RECURSIVE RemoveDuplicates(_, _, _, _, _, _)
\* the loop over paths_to_remove: [m, raised, success_count, total_bytes_freed, messages]
RemoveDuplicates(acc, paths, size_bytes, dry_run, useTrash, env) ==
    IF paths = <<>> \/ acc.raised THEN acc
    ELSE LET d == _safe_delete(acc.m, Head(paths), dry_run, useTrash, env)
             m2 == IF d.success /\ ~dry_run
                   THEN [d.m EXCEPT !.scanned_items = delete_scanned_item(@, Head(paths))]
                   ELSE d.m
         IN RemoveDuplicates(
                [m |-> m2, raised |-> d.raised,
                 success_count |-> acc.success_count + (IF d.success THEN 1 ELSE 0),
                 total_bytes_freed |-> acc.total_bytes_freed
                                       + (IF d.success THEN size_bytes ELSE 0),
                 messages |-> acc.messages \o d.message],
                Tail(paths), size_bytes, dry_run, useTrash, env)

\* the handler without a copy to keep: every path of the set is removed
_handle_duplicate_set_keeping_none(m, suggestion, dry_run, useTrash, env) ==
    LET dup_set == suggestion.data
    IN IF dup_set.kind # "DuplicateSet" \/ Len(dup_set.paths) < 2
       THEN Returned(m, suggestion, FALSE,
                     <<"Invalid data type or insufficient files for DUPLICATE_SET">>, 0,
                     dry_run)
       ELSE LET r == RemoveDuplicates(
                         [m |-> m, raised |-> FALSE, success_count |-> 0,
                          total_bytes_freed |-> 0, messages |-> <<>>],
                         dup_set.paths, dup_set.size_bytes, dry_run, useTrash, env)
            IN IF r.raised THEN Raised(r.m, suggestion, r.messages, dry_run)
               ELSE Returned(r.m, suggestion, r.success_count = Len(dup_set.paths),
                             <<"Removed", ToString(r.success_count)>> \o r.messages,
                             r.total_bytes_freed, dry_run)

_handle_duplicate_set(m, suggestion, dry_run, useTrash, env) ==
    LET dup_set == suggestion.data
    IN IF dup_set.kind # "DuplicateSet" \/ Len(dup_set.paths) < 2
       THEN Returned(m, suggestion, FALSE,
                     <<"Invalid data type or insufficient files for DUPLICATE_SET">>, 0,
                     dry_run)
       ELSE LET paths_to_remove == Tail(dup_set.paths)
                r == RemoveDuplicates(
                         [m |-> m, raised |-> FALSE, success_count |-> 0,
                          total_bytes_freed |-> 0, messages |-> <<>>],
                         paths_to_remove, dup_set.size_bytes, dry_run, useTrash, env)
            IN IF r.raised THEN Raised(r.m, suggestion, r.messages, dry_run)
               ELSE Returned(r.m, suggestion, r.success_count = Len(paths_to_remove),
                             <<"Removed", ToString(r.success_count), "Kept",
                               dup_set.paths[1]>> \o r.messages,
                             r.total_bytes_freed, dry_run)

RECURSIVE DeleteItems(_, _)
DeleteItems(tbl, paths) ==
    IF paths = <<>> THEN tbl
    ELSE DeleteItems(delete_scanned_item(tbl, Head(paths)), Tail(paths))

\* the handler that drops the rows of the listed paths whatever rm answers
_handle_pacman_cache_dropping_rows(m, suggestion, dry_run, env) ==
    LET paths_to_remove == suggestion.data
    IN IF ~IsListOf(paths_to_remove, "Path")
       THEN Returned(m, suggestion, FALSE, <<"Invalid data type for PACMAN_CACHE">>, 0,
                     dry_run)
       ELSE IF paths_to_remove.elems = <<>>
       THEN Returned(m, suggestion, TRUE,
                     <<"No pacman cache files specified for removal.">>, 0, dry_run)
       ELSE LET paths_str == [i \in DOMAIN paths_to_remove.elems |->
                                 paths_to_remove.elems[i].path]
                n == ToString(Len(paths_str))
            IN IF dry_run
               THEN Returned(m, suggestion, TRUE, Msg("Simulated removal of cache files", n),
                             suggestion.estimated_size_bytes, TRUE)
               ELSE IF "rm" \notin env.cmdFail
               THEN Returned([run_command(m, "rm", paths_str)
                                 EXCEPT !.unlinked = @ \cup (Range(paths_str) \cap m.fs),
                                        !.fs = @ \ Range(paths_str),
                                        !.scanned_items = DeleteItems(@, paths_str)],
                             suggestion, TRUE,
                             Msg("Successfully removed pacman cache files", n),
                             suggestion.estimated_size_bytes, FALSE)
               ELSE Returned([run_command(m, "rm", paths_str)
                                 EXCEPT !.scanned_items = DeleteItems(@, paths_str)],
                             suggestion, FALSE, <<"Failed to remove cache files">>, 0, FALSE)

_handle_pacman_cache(m, suggestion, dry_run, env) ==
    LET paths_to_remove == suggestion.data
    IN IF ~IsListOf(paths_to_remove, "Path")
       THEN Returned(m, suggestion, FALSE, <<"Invalid data type for PACMAN_CACHE">>, 0,
                     dry_run)
       ELSE IF paths_to_remove.elems = <<>>
       THEN Returned(m, suggestion, TRUE,
                     <<"No pacman cache files specified for removal.">>, 0, dry_run)
       ELSE LET paths_str == [i \in DOMAIN paths_to_remove.elems |->
                                 paths_to_remove.elems[i].path]
                n == ToString(Len(paths_str))
            IN IF dry_run
               THEN Returned(m, suggestion, TRUE, Msg("Simulated removal of cache files", n),
                             suggestion.estimated_size_bytes, TRUE)
               ELSE IF "rm" \notin env.cmdFail
               THEN Returned([run_command(m, "rm", paths_str)
                                 EXCEPT !.unlinked = @ \cup (Range(paths_str) \cap m.fs),
                                        !.fs = @ \ Range(paths_str),
                                        !.scanned_items = DeleteItems(@, paths_str)],
                             suggestion, TRUE,
                             Msg("Successfully removed pacman cache files", n),
                             suggestion.estimated_size_bytes, FALSE)
               ELSE Returned(run_command(m, "rm", paths_str), suggestion, FALSE,
                             <<"Failed to remove cache files">>, 0, FALSE)

_handle_journal_log(m, suggestion, dry_run, env) ==
    LET vacuum_params == suggestion.data
    IN IF vacuum_params.kind # "dict"
       THEN Returned(m, suggestion, FALSE, <<"Invalid data type for JOURNAL_LOG">>, 0,
                     dry_run)
       ELSE IF "target_size" \notin DOMAIN vacuum_params
       THEN Returned(m, suggestion, FALSE,
                     <<"No target size or age specified for journal vacuum.">>, 0, dry_run)
       ELSE IF dry_run
       THEN Returned(m, suggestion, TRUE, <<"Simulated journal vacuum.">>, 0, TRUE)
       ELSE IF "journalctl" \notin env.cmdFail
       THEN LET left == Min2(m.journalSize, vacuum_params.target_size)
                bytes_freed == m.journalSize - left
                args == <<"--vacuum-size", ToString(vacuum_params.target_size)>>
            IN Returned([run_command(m, "journalctl", args) EXCEPT !.journalSize = left],
                        suggestion, TRUE,
                        Msg("Successfully vacuumed journal logs", ToString(bytes_freed)),
                        bytes_freed, FALSE)
       ELSE Returned(run_command(m, "journalctl",
                                 <<"--vacuum-size", ToString(vacuum_params.target_size)>>),
                     suggestion, FALSE, <<"Failed to vacuum journal">>, 0, FALSE)

\* handler_method(suggestion, dry_run) for the handler getattr finds
handler_method(m, suggestion, dry_run, useTrash, env) ==
    LET t == suggestion.suggestion_type
    IN IF t = SUGGESTION_OLD_FILE
           THEN _handle_old_file(m, suggestion, dry_run, useTrash, env)
       ELSE IF t = SUGGESTION_LARGE_FILE
           THEN _handle_large_file(m, suggestion, dry_run, useTrash, env)
       ELSE IF t = SUGGESTION_ORPHAN_PACKAGE
           THEN _handle_orphan_package(m, suggestion, dry_run, env)
       ELSE IF t = SUGGESTION_DUPLICATE_SET
           THEN _handle_duplicate_set(m, suggestion, dry_run, useTrash, env)
       ELSE IF t = SUGGESTION_PACMAN_CACHE
           THEN _handle_pacman_cache(m, suggestion, dry_run, env)
       ELSE _handle_journal_log(m, suggestion, dry_run, env)

\* execute_suggestion without the try/except around the handler call
execute_suggestion_unguarded(m, suggestion, dry_run, useTrash, env) ==
    LET t == suggestion.suggestion_type
        h == handler_method(m, suggestion, dry_run, useTrash, env)
    IN IF t \in SuggestionTypes
       THEN [m |-> h.m, raised |-> h.raised, result |-> h.result]
       ELSE [m |-> m, raised |-> FALSE,
             result |-> ActionResult(suggestion, FALSE,
                                     Msg("Unsupported suggestion type", t), 0, dry_run)]

\* getattr(self, "_handle_<type>") and the guarded call: [m, raised, result];
\* raised says whether an exception leaves execute_suggestion
execute_suggestion(m, suggestion, dry_run, useTrash, env) ==
    LET t == suggestion.suggestion_type
        h == handler_method(m, suggestion, dry_run, useTrash, env)
    IN IF t \in SuggestionTypes
       THEN IF h.raised
            THEN [m |-> h.m, raised |-> FALSE,
                  result |-> ActionResult(suggestion, FALSE,
                                          <<"Execution error">> \o h.result.message, 0,
                                          dry_run)]
            ELSE [m |-> h.m, raised |-> FALSE, result |-> h.result]
       ELSE [m |-> m, raised |-> FALSE,
             result |-> ActionResult(suggestion, FALSE,
                                     Msg("Unsupported suggestion type", t), 0, dry_run)]


\* collect_all without its try blocks: the first exception of a step ends the
\* run where it stands
scan_aborting(items0, pkgs0, scan_id, files, inst, jsize, directory, env) ==
    collect_all(items0, pkgs0, scan_id, files, inst, jsize, PyNone,
                IF env.raises = "none" THEN env
                ELSE [env EXCEPT !.killed = env.raises])

\* CoreController.scan: the first call of collect_all is made without the
\* directory; the call that passes it stands in an except clause, and
\* collect_all catches what its steps raise
scan(items0, pkgs0, scan_id, files, inst, jsize, directory, env) ==
    collect_all(items0, pkgs0, scan_id, files, inst, jsize, PyNone, env)

----------------------------------------------------------------------------
(* core/controller.py: the suggestion artifact.                            *)
(*                                                                         *)
(* JSON values: an object is [json |-> "object", v |-> the record of its   *)
(* members], an array [json |-> "array", v |-> the sequence], a string     *)
(* [json |-> "string", v |-> it], null [json |-> "null"].  The class of a  *)
(* serialized object is not written: only its __dict__ is.                 *)

JObject(members) == [json |-> "object", v |-> members]
JArray(elems) == [json |-> "array", v |-> elems]
JString(str) == [json |-> "string", v |-> str]
JNull == [json |-> "null"]
JNumber(n) == [json |-> "number", n |-> n]

\* json.dump's default=suggestion_encoder on one value
suggestion_encoder(obj) ==
    IF obj.kind = "Path" THEN JString(obj.path)
    ELSE IF obj.kind = "ScannedItem"
    THEN JObject([path |-> obj.path, size_bytes |-> obj.size_bytes,
                  last_accessed |-> obj.last_accessed, item_type |-> obj.item_type,
                  extra_info |-> obj.extra_info])
    ELSE IF obj.kind = "PackageInfo"
    THEN JObject([name |-> obj.name, size_bytes |-> obj.size_bytes,
                  is_orphan |-> obj.is_orphan])
    ELSE IF obj.kind = "DuplicateSet"
    THEN JObject([file_hash |-> obj.file_hash, paths |-> obj.paths,
                  size_bytes |-> obj.size_bytes,
                  total_size_bytes |-> obj.total_size_bytes])
    ELSE IF obj.kind = "dict"
    THEN JObject([target_size |-> obj.target_size, target_age |-> obj.target_age])
    ELSE JNull

EncodeData(data) ==
    IF data.kind = "list"
    THEN JArray([i \in DOMAIN data.elems |-> suggestion_encoder(data.elems[i])])
    ELSE suggestion_encoder(data)

\* the file after _save_suggestions_to_file: when mkdir or open raises IOError
\* the error is logged and the file is what it was
_save_suggestions_to_file(file, suggestions, io_error) ==
    IF io_error THEN file
    ELSE
    [i \in DOMAIN suggestions |->
        [id |-> suggestions[i].id,
         suggestion_type |-> suggestions[i].suggestion_type,
         details |-> suggestions[i].details,
         estimated_size_bytes |-> suggestions[i].estimated_size_bytes,
         confidence |-> suggestions[i].confidence,
         data |-> EncodeData(suggestions[i].data)]]

\* dict.get(key, default)
Get(members, key, default) == IF key \in DOMAIN members THEN members[key] ELSE default

\* `if data_field:`
Truthy(j) ==
    /\ j.json # "null"
    /\ j.json = "array" => j.v # <<>>
    /\ j.json = "object" => DOMAIN j.v # {}

ReconstructTypesAsItem ==
    {"OLD_FILE", "LARGE_FILE", "CACHE_FILE", "LOG_FILE", "PACMAN_CACHE_FILE", "JOURNAL_LOG"}

\* the reconstruction of one record: [skipped, suggestion]
Reconstruct(sugg_data) ==
    LET data_field == sugg_data.data
        suggestion_type == sugg_data.suggestion_type
        made(reconstructed_data) ==
            [skipped |-> FALSE,
             suggestion |-> Suggestion(sugg_data.id, suggestion_type, sugg_data.details,
                                       sugg_data.estimated_size_bytes,
                                       sugg_data.confidence, reconstructed_data)]
        skip == [skipped |-> TRUE, suggestion |-> PyNone]
    IN IF ~Truthy(data_field) THEN made(PyNone)
       ELSE IF data_field.json # "object" THEN skip
       ELSE IF suggestion_type \in ReconstructTypesAsItem
       THEN made(ScannedItem(Get(data_field.v, "path", "."),
                             Get(data_field.v, "size_bytes", 0),
                             Get(data_field.v, "last_accessed", 0),
                             Get(data_field.v, "item_type", "unknown"),
                             Get(data_field.v, "extra_info", [hash |-> NoHash]).hash))
       ELSE IF suggestion_type = "ORPHAN_PACKAGE"
       THEN made(PackageInfo(Get(data_field.v, "name", "unknown"),
                             Get(data_field.v, "size_bytes", 0),
                             Get(data_field.v, "is_orphan", TRUE)))
       ELSE IF suggestion_type = "DUPLICATE_FILES"
       THEN skip  \* DuplicateSet() without total_size_bytes: TypeError
       ELSE made(PyNone)

RECURSIVE LoadFrom(_)
LoadFrom(suggestions_data) ==
    IF suggestions_data = <<>> THEN <<>>
    ELSE LET r == Reconstruct(Head(suggestions_data))
         IN (IF r.skipped THEN <<>> ELSE <<r.suggestion>>)
            \o LoadFrom(Tail(suggestions_data))

\* a record of the array that is a JSON object is the record of its members;
\* any other JSON value carries its json tag
IsDict(sugg_data) == "json" \notin DOMAIN sugg_data

\* sugg_data.get('data') on a record that is not a dict raises AttributeError;
\* the inner except names TypeError, KeyError and ValueError, the outer one
\* IOError and JSONDecodeError: the exception leaves get_last_suggestions
get_last_suggestions_raises(file) == \E i \in DOMAIN file : ~IsDict(file[i])

\* the list returned; nothing is returned when the exception leaves
get_last_suggestions(file) ==
    IF get_last_suggestions_raises(file) THEN <<>> ELSE LoadFrom(file)

\* failed_count when the loop ends
failed_count(file) ==
    Cardinality({i \in DOMAIN file : Reconstruct(file[i]).skipped})

\* suggest: [generated, saved `the file`, returned]
suggest(file, items, pkgs, files, limit, analysis_raises, io_error) ==
    LET generated == generate_suggestions(analyze_all(items, pkgs, files))
    IN IF analysis_raises
       THEN [generated |-> <<>>,
             saved |-> _save_suggestions_to_file(file, <<>>, io_error),
             returned |-> <<>>]
       ELSE [generated |-> generated,
             saved |-> _save_suggestions_to_file(file, generated, io_error),
             returned |-> IF limit > 0 THEN Prefix(generated, limit) ELSE generated]

\* LearningModule.record_feedback
record_feedback(tbl, suggestion, action_taken) ==
    IF ~learning_enabled THEN tbl
    ELSE add_feedback(tbl, ActionFeedback(suggestion.id, action_taken, "None"))

\* {s.id: s for s in suggestions_from_file}[sugg_id] : the last record with the id
Lookup(suggestions, sugg_id) ==
    suggestions[CHOOSE i \in DOMAIN suggestions :
                   /\ suggestions[i].id = sugg_id
                   /\ \A j \in DOMAIN suggestions : suggestions[j].id = sugg_id => j <= i]

IdsOf(suggestions) == {suggestions[i].id : i \in DOMAIN suggestions}

RECURSIVE SelectIds(_, _)
SelectIds(suggestions, suggestion_ids) ==
    IF suggestion_ids = <<>> THEN <<>>
    ELSE (IF Head(suggestion_ids) \in IdsOf(suggestions)
          THEN <<Lookup(suggestions, Head(suggestion_ids))>> ELSE <<>>)
         \o SelectIds(suggestions, Tail(suggestion_ids))

\* suggestion_ids is [kind |-> "None"] or [kind |-> "list", elems |-> ids]
suggestions_to_apply(suggestions_from_file, suggestion_ids) ==
    IF suggestion_ids.kind = "list" /\ suggestion_ids.elems # <<>>
    THEN SelectIds(suggestions_from_file, suggestion_ids.elems)
    ELSE suggestions_from_file

\* the element of a set of one element; a value bound over such a set is
\* computed once, where it is bound
The(S) == CHOOSE v \in S : TRUE

\* one turn of the loop of apply: acc after the suggestion was executed
ApplyStep(acc, suggestion, dry_run, useTrash, env) ==
    The({[m |-> x.m,
          feedback |-> IF dry_run THEN acc.feedback
                       ELSE record_feedback(acc.feedback, suggestion,
                                            IF x.result.success THEN "APPROVED"
                                            ELSE "EXECUTION_FAILED"),
          results |-> Append(acc.results, x.result)] :
         x \in {execute_suggestion(acc.m, suggestion, dry_run, useTrash, env)}})

RECURSIVE ApplyLoop(_, _, _, _, _)
\* the loop of apply over suggestions_to_apply; acc is [m, feedback, results]
ApplyLoop(acc, todo, dry_run, useTrash, env) ==
    IF todo = <<>> THEN acc
    ELSE The({ApplyLoop(next, Tail(todo), dry_run, useTrash, env) :
              next \in {ApplyStep(acc, Head(todo), dry_run, useTrash, env)}})

\* CoreController.apply: [m, feedback, results]
apply(m, feedback, file, suggestion_ids, dry_run, useTrash, env) ==
    LET suggestions_from_file == get_last_suggestions(file)
    IN ApplyLoop([m |-> m, feedback |-> feedback, results |-> <<>>],
                 suggestions_to_apply(suggestions_from_file, suggestion_ids),
                 dry_run, useTrash, env)

\* what a later invocation reads at suggestions_path: the file, or nothing
\* once the path was removed (get_last_suggestions returns [] when it does
\* not exist)
suggestions_file(file, files_before, files_after) ==
    IF SuggestionsPath \in files_before \ files_after THEN <<>> ELSE file

\* the suggestions run_auto hands to apply whatever their confidence
suggestions_to_apply_unfiltered(suggestions, min_confidence) == suggestions

\* run_auto: [s for s in suggestions if s.confidence >= min_confidence]
suggestions_to_apply_auto(suggestions, min_confidence) ==
    SelectSeq(suggestions, LAMBDA x : x.confidence >= min_confidence)


----------------------------------------------------------------------------
(* The state machine.                                                      *)

Machine == [fs |-> fs, trash |-> trash, unlinked |-> unlinked, installed |-> installed,
            journalSize |-> journalSize, scanned_items |-> scanned_items,
            packages |-> packages, commands |-> <<>>]

\* the paths and commands one suggestion can reach: the answers of the outside
\* world about anything else cannot change the outcome
TouchedPaths(s) ==
    IF s.suggestion_type \in {SUGGESTION_OLD_FILE, SUGGESTION_LARGE_FILE}
       /\ s.data.kind = "ScannedItem" THEN {s.data.path}
    ELSE IF s.suggestion_type = SUGGESTION_DUPLICATE_SET /\ s.data.kind = "DuplicateSet"
    THEN Range(s.data.paths) \ {s.data.paths[1]}
    ELSE {}

TouchedCmds(s) ==
    IF s.suggestion_type = SUGGESTION_ORPHAN_PACKAGE /\ s.data.kind = "list" THEN {"pacman"}
    ELSE IF s.suggestion_type = SUGGESTION_PACMAN_CACHE /\ s.data.kind = "list" THEN {"rm"}
    ELSE IF s.suggestion_type = SUGGESTION_JOURNAL_LOG /\ s.data.kind = "dict"
    THEN {"journalctl"}
    ELSE {}

Envs(todo, dry_run) ==
    LET paths == UNION {TouchedPaths(todo[i]) : i \in DOMAIN todo}
        cmds == UNION {TouchedCmds(todo[i]) : i \in DOMAIN todo}
    IN [failOn : IF dry_run THEN {{}} ELSE SUBSET paths,
        raiseOn : {{}} \cup {{p} : p \in paths},
        cmdFail : IF dry_run THEN {{}} ELSE SUBSET cmds]

UnknownId == <<"0000000000">>

SeqsUpTo(S, n) == UNION {[1..k -> S] : k \in 0..n}

Selections(file) ==
    {[kind |-> "None"]}
    \cup {[kind |-> "list", elems |-> ids] :
             ids \in SeqsUpTo({file[i].id : i \in DOMAIN file} \cup {UnknownId}, MaxSel)}

Init ==
    /\ fs = Paths
    /\ trash = {}
    /\ unlinked = {}
    /\ installed = Pkgs
    /\ journalSize = journal_max_bytes + 1
    /\ use_trash_cfg \in BOOLEAN
    /\ HAS_TRASH_CLI \in BOOLEAN
    /\ scan_history = <<>>
    /\ scanned_items = <<>>
    /\ packages = <<>>
    /\ action_feedback = <<>>
    /\ artifact = <<>>
    /\ scanning = PyNone
    /\ last = [op |-> "init"]
    /\ ops = 0
    /\ ext = 0

\* somebody else removes a file
ExternalDelete(p) ==
    /\ ops < MaxOps
    /\ ext < MaxExt
    /\ p \in fs \cap (UserFiles \cup CacheFiles)
    /\ fs' = fs \ {p}
    /\ ext' = ext + 1
    /\ UNCHANGED scanning
    /\ last' = [op |-> "external"]
    /\ UNCHANGED <<trash, unlinked, installed, journalSize, use_trash_cfg, HAS_TRASH_CLI,
                   scan_history, scanned_items, packages, action_feedback, artifact, ops>>

\* the faults of one scan: at most one thing goes wrong
ScanEnvs ==
    {NoScanFault}
    \cup {[NoScanFault EXCEPT !.raises = st] :
              st \in {"fs", "pkg", "cache", "journal", "dup"}}
    \cup {[NoScanFault EXCEPT !.sql_error = st] : st \in {"fs", "pkg", "cache", "journal"}}
    \cup {[NoScanFault EXCEPT !.killed = st] : st \in Range(StepOrder)}

\* CoreController.scan(force, directory)
Scan(directory, env) ==
    /\ ops < MaxOps
    /\ LET scan_id == Len(scan_history) + 1
       IN \E r \in {scan(scanned_items, packages, scan_id, fs, installed, journalSize,
                         directory, env)} :
          /\ scanned_items' = r.scanned_items
          /\ packages' = r.packages
          /\ scan_history' = Append(scan_history,
                                    [scan_id |-> scan_id, ended |-> r.ended,
                                     items_found |-> r.items_found,
                                     errors |-> r.errors])
          /\ last' = [op |-> "scan", scan_id |-> scan_id,
                      rows_before |-> Len(scanned_items),
                      rescan |-> last.op = "scan" /\ last.env = NoScanFault,
                      directory |-> directory, env |-> env,
                      before |-> Machine]
    /\ ops' = ops + 1
    /\ UNCHANGED scanning
    /\ UNCHANGED <<world, use_trash_cfg, HAS_TRASH_CLI, action_feedback, artifact, ext>>

\* CoreController.suggest(limit); limit 0 stands for None
Suggest(limit, analysis_raises, io_error) ==
    /\ ops < MaxOps
    /\ \E r \in {suggest(artifact, scanned_items, packages, fs, limit, analysis_raises,
                         io_error)} :
          /\ artifact' = r.saved
          /\ last' = [op |-> "suggest", limit |-> limit, raised |-> analysis_raises,
                      io_error |-> io_error,
                      generated |-> r.generated, returned |-> r.returned,
                      file_before |-> artifact]
    /\ ops' = ops + 1
    /\ UNCHANGED scanning
    /\ UNCHANGED <<world, store, use_trash_cfg, HAS_TRASH_CLI, ext>>

SetMachine(m) ==
    /\ fs' = m.fs
    /\ trash' = m.trash
    /\ unlinked' = m.unlinked
    /\ installed' = m.installed
    /\ journalSize' = m.journalSize
    /\ scanned_items' = m.scanned_items
    /\ packages' = m.packages

\* CoreController.apply(suggestion_ids, dry_run)
Apply(suggestion_ids, dry_run) ==
    /\ ops < MaxOps
    /\ LET useTrash == use_trash(use_trash_cfg, HAS_TRASH_CLI)
           todo == suggestions_to_apply(get_last_suggestions(artifact), suggestion_ids)
       IN \E env \in Envs(todo, dry_run) :
            \E r \in {apply(Machine, action_feedback, artifact, suggestion_ids, dry_run,
                           useTrash, env)} :
               /\ SetMachine(r.m)
               /\ action_feedback' = r.feedback
               /\ artifact' = suggestions_file(artifact, fs, r.m.fs)
               /\ last' = [op |-> "apply", suggestion_ids |-> suggestion_ids,
                           dry_run |-> dry_run, env |-> env,
                           results |-> r.results,
                           feedback_before |-> action_feedback,
                           before |-> Machine,
                           file |-> artifact]
    /\ ops' = ops + 1
    /\ UNCHANGED scanning
    /\ UNCHANGED <<use_trash_cfg, HAS_TRASH_CLI, scan_history, ext>>

\* the suggestions a caller of the executor can hold: those just generated
\* from the store, those loaded from the artifact, and one of a type that has
\* no handler
UnknownTypeSuggestion ==
    Suggestion(UnknownId, "LARGE_DIR", <<"d">>, 0, 0, PyNone)

ExecInputs ==
    Range(generate_suggestions(analyze_all(scanned_items, packages, fs)))
    \cup Range(get_last_suggestions(artifact))
    \cup {UnknownTypeSuggestion}

\* ExecutionHandler.execute_suggestion(suggestion, dry_run), called directly
Execute(suggestion, dry_run) ==
    /\ ops < MaxOps
    /\ LET useTrash == use_trash(use_trash_cfg, HAS_TRASH_CLI)
       IN \E env \in Envs(<<suggestion>>, dry_run) :
            \E x \in {execute_suggestion(Machine, suggestion, dry_run, useTrash, env)} :
               /\ SetMachine(x.m)
               /\ artifact' = suggestions_file(artifact, fs, x.m.fs)
               /\ last' = [op |-> "execute", suggestion |-> suggestion,
                           dry_run |-> dry_run, env |-> env, raised |-> x.raised,
                           result |-> x.result, commands |-> x.m.commands,
                           before |-> Machine]
    /\ ops' = ops + 1
    /\ UNCHANGED scanning
    /\ UNCHANGED <<use_trash_cfg, HAS_TRASH_CLI, scan_history, action_feedback, ext>>

Next ==
    \/ \E p \in Paths : ExternalDelete(p)
    \/ Scan(PyNone, NoScanFault)
    \/ /\ ops < MaxOps
       /\ \E limit \in 0..MaxLimit, analysis_raises \in BOOLEAN, io_error \in BOOLEAN :
              Suggest(limit, analysis_raises, io_error)
    \/ /\ ops < MaxOps
       /\ \E suggestion_ids \in Selections(artifact), dry_run \in BOOLEAN :
              Apply(suggestion_ids, dry_run)
    \/ /\ ops < MaxOps
       /\ \E suggestion \in ExecInputs, dry_run \in BOOLEAN : Execute(suggestion, dry_run)

Spec == Init /\ [][Next]_vars

\* Scans with a target directory and with faults, over a filesystem that
\* changes between them.
NextScan ==
    \/ \E p \in Paths : ops < MaxScans /\ ExternalDelete(p)
    \/ /\ ops < MaxScans
       /\ \E directory \in {PyNone, PyPath("d3")}, env \in ScanEnvs : Scan(directory, env)

SpecScan == Init /\ [][NextScan]_vars

\* Unattended runs under the values automation.min_confidence can be set to:
\* one that OLD_FILE suggestions reach, the default, and one nothing reaches.
MinConfidences == {Confidence(50), Confidence(80), Confidence(95)}

\* CoreController.run_auto(dry_run): scan, suggest, filter by confidence,
\* apply the ids that are left; the model follows the machine up to its first
\* unattended run
RunAuto(dry_run, min_confidence, analysis_raises, io_error) ==
    /\ ops < MaxOps
    /\ \E c \in {scan(scanned_items, packages, Len(scan_history) + 1, fs, installed,
                      journalSize, PyNone, NoScanFault)} :
       \E s \in {suggest(artifact, c.scanned_items, c.packages, fs, 0, analysis_raises,
                         io_error)} :
       \E chosen \in {suggestions_to_apply_auto(s.returned, min_confidence)} :
       \E suggestion_ids \in {[kind |-> "list",
                               elems |-> [i \in DOMAIN chosen |-> chosen[i].id]]} :
       \E m \in {[Machine EXCEPT !.scanned_items = c.scanned_items,
                                  !.packages = c.packages]} :
       \E todo \in {IF chosen = <<>> THEN <<>>
                    ELSE suggestions_to_apply(get_last_suggestions(s.saved),
                                              suggestion_ids)} :
       \E env \in Envs(todo, dry_run) :
       \E r \in {IF s.returned = <<>> \/ chosen = <<>>
                 THEN [m |-> m, feedback |-> action_feedback, results |-> <<>>]
                 ELSE apply(m, action_feedback, s.saved, suggestion_ids, dry_run,
                            use_trash(use_trash_cfg, HAS_TRASH_CLI), env)} :
          /\ SetMachine(r.m)
          /\ scan_history' = Append(scan_history,
                                    [scan_id |-> Len(scan_history) + 1,
                                     ended |-> c.ended, items_found |-> c.items_found,
                                     errors |-> c.errors])
          /\ action_feedback' = r.feedback
          /\ artifact' = suggestions_file(s.saved, fs, r.m.fs)
          /\ last' = [op |-> "auto", dry_run |-> dry_run,
                      min_confidence |-> min_confidence,
                      raised |-> analysis_raises, io_error |-> io_error,
                      env |-> env, suggestions |-> s.returned,
                      ids |-> suggestion_ids.elems,
                      results |-> r.results, before |-> Machine,
                      history_before |-> scan_history,
                      feedback_before |-> action_feedback,
                      file_before |-> artifact]
    /\ ops' = MaxOps
    /\ UNCHANGED scanning
    /\ UNCHANGED <<use_trash_cfg, HAS_TRASH_CLI, ext>>

NextAuto ==
    \/ \E p \in Paths : ExternalDelete(p)
    \/ Scan(PyNone, NoScanFault)
    \/ Suggest(0, FALSE, FALSE)
    \/ /\ ops < MaxOps
       /\ \E dry_run \in BOOLEAN, min_confidence \in MinConfidences,
             analysis_raises \in BOOLEAN, io_error \in BOOLEAN :
              RunAuto(dry_run, min_confidence, analysis_raises, io_error)

SpecAuto == Init /\ [][NextAuto]_vars

\* The analyzer's old-file threshold under the strings thresholds.old_file
\* can be set to, in true seconds.

\* a duration string as the groups the pattern of parse_duration splits it
\* into: the number and the unit that follows it ("" when there is none)
DurationStr(value, unit) == [value |-> value, unit |-> unit]

PyInt(n) == [kind |-> "int", n |-> n]

TIME_UNITS == [s |-> 1, m |-> 60, h |-> 3600, d |-> 86400, w |-> 86400 * 7,
               month |-> 86400 * 30, y |-> 86400 * 365]

\* parse_duration: the seconds, or None when the pattern does not match
parse_duration(duration_str) ==
    IF duration_str.unit \notin {"", "s", "m", "h", "d", "w", "month", "y"}
    THEN PyNone
    ELSE LET unit == IF duration_str.unit = "" THEN "s" ELSE duration_str.unit
         IN PyInt(duration_str.value * TIME_UNITS[unit])

\* DEFAULT_CONFIG["thresholds"]["old_file"]
DEFAULT_old_file == DurationStr(3, "m")

\* AnalysisEngine.__init__: self.old_file_seconds
engine_old_file_seconds(old_file_threshold_str) ==
    LET parsed == parse_duration(old_file_threshold_str)
    IN IF parsed = PyNone THEN 90 * 86400 ELSE parsed.n

OldFileStrings ==
    {DurationStr(value, unit) :
        value \in {1, 3, 30}, unit \in {"", "s", "m", "h", "d", "w", "month", "y", "x"}}

\* how long ago a file was last accessed
FileAges == {3600, 89 * 86400, 91 * 86400}

\* an analyzer built under a threshold string classifies a file of an age
NewAnalysisEngine(old_file_threshold_str, age) ==
    /\ ops < MaxOps
    /\ LET seconds == engine_old_file_seconds(old_file_threshold_str)
           last_accessed == Now - age
           cutoff_time == Now - seconds
       IN last' = [op |-> "engine", old_file |-> old_file_threshold_str,
                   old_file_seconds |-> seconds, age |-> age,
                   old |-> last_accessed < cutoff_time]
    /\ ops' = ops + 1
    /\ UNCHANGED scanning
    /\ UNCHANGED <<world, store, use_trash_cfg, HAS_TRASH_CLI, artifact, ext>>

NextConfig ==
    \E old_file_threshold_str \in OldFileStrings, age \in FileAges :
        NewAnalysisEngine(old_file_threshold_str, age)

SpecConfig == Init /\ [][NextConfig]_vars

\* The machine of the default configuration, where the scanned directories
\* hold the program's own data directory: the store after a scan of the home
\* directory and the artifact suggest wrote from it, then applies.
HomeItems ==
    _mark_duplicates_in_db(
        UpsertItems(<<>>, _scan_filesystem(HomeWalk, Range(HomeWalk), duplicates_enabled,
                                           duplicate_min_bytes), 1),
        duplicate_min_bytes)

InitHome ==
    /\ fs = Range(HomeWalk)
    /\ trash = {}
    /\ unlinked = {}
    /\ installed = {}
    /\ journalSize = 0
    /\ use_trash_cfg \in BOOLEAN
    /\ HAS_TRASH_CLI \in BOOLEAN
    /\ scan_history = <<[scan_id |-> 1, ended |-> TRUE, items_found |-> Len(HomeWalk),
                         errors |-> PyNone]>>
    /\ scanned_items = HomeItems
    /\ packages = <<>>
    /\ action_feedback = <<>>
    /\ artifact = suggest(<<>>, HomeItems, <<>>, Range(HomeWalk), 0, FALSE, FALSE).saved
    /\ scanning = PyNone
    /\ last = [op |-> "init"]
    /\ ops = 0
    /\ ext = 0

NextHome ==
    \/ \E p \in Paths : ops < MaxHomeOps /\ ExternalDelete(p)
    \/ /\ ops < MaxHomeOps
       /\ \E suggestion_ids \in Selections(artifact), dry_run \in BOOLEAN :
              Apply(suggestion_ids, dry_run)

SpecHome == InitHome /\ [][NextHome]_vars

\* Two processes on one store: a scan whose walk of the filesystem and whose
\* batch write are separate steps, and the applies of another invocation that
\* run between them.  No lock is held during the walk: start_collection
\* commits its transaction before it, and every write of the store commits
\* on its own.
InitRace ==
    /\ fs = Paths
    /\ trash = {}
    /\ unlinked = {}
    /\ installed = Pkgs
    /\ journalSize = journal_max_bytes + 1
    /\ use_trash_cfg \in BOOLEAN
    /\ HAS_TRASH_CLI \in BOOLEAN
    /\ \E c \in {scan(<<>>, <<>>, 1, Paths, Pkgs, journal_max_bytes + 1, PyNone,
                       NoScanFault)} :
          /\ scan_history = <<[scan_id |-> 1, ended |-> c.ended,
                               items_found |-> c.items_found, errors |-> c.errors]>>
          /\ scanned_items = c.scanned_items
          /\ packages = c.packages
          /\ artifact = suggest(<<>>, c.scanned_items, c.packages, Paths, 0, FALSE,
                                FALSE).saved
    /\ action_feedback = <<>>
    /\ scanning = PyNone
    /\ last = [op |-> "init"]
    /\ ops = 0
    /\ ext = 0

\* collect_all up to the end of the walk: start_collection has written the
\* scan epoch, list(self._scan_filesystem(...)) is in memory
ScanWalk ==
    /\ ops < MaxRaceOps
    /\ scanning = PyNone
    /\ LET scan_id == Len(scan_history) + 1
           items == _scan_filesystem(WalkOrder, fs, duplicates_enabled,
                                     duplicate_min_bytes)
       IN /\ scan_history' = Append(scan_history,
                                    [scan_id |-> scan_id, ended |-> FALSE,
                                     items_found |-> 0, errors |-> PyNone])
          /\ scanning' = [kind |-> "scan", scan_id |-> scan_id, items |-> items,
                          walked |-> Machine]
          /\ last' = [op |-> "scan_walk", scan_id |-> scan_id]
    /\ ops' = ops + 1
    /\ UNCHANGED <<world, use_trash_cfg, HAS_TRASH_CLI, scanned_items, packages,
                   action_feedback, artifact, ext>>

\* collect_all from the batch write of the walked items to finish_collection:
\* the steps after the filesystem batch are those of a collect_all whose walk
\* finds nothing, run on the table the batch left; the model follows the
\* machine up to the end of this scan
ScanWrite ==
    /\ scanning # PyNone
    /\ \E t1 \in {IF scanning.items # <<>>
                   THEN add_scanned_items_batch(scanned_items, scanning.items,
                                                scanning.scan_id, FALSE)
                   ELSE scanned_items} :
       \E r \in {collect_all(t1, packages, scanning.scan_id, fs \ Range(WalkOrder),
                             installed, journalSize, PyNone, NoScanFault)} :
          /\ scanned_items' = r.scanned_items
          /\ packages' = r.packages
          /\ scan_history' =
                 [scan_history EXCEPT ![scanning.scan_id] =
                     [scan_id |-> scanning.scan_id, ended |-> r.ended,
                      items_found |-> Len(scanning.items) + r.items_found,
                      errors |-> r.errors]]
          /\ last' = [op |-> "scan_write", scan_id |-> scanning.scan_id,
                      walked |-> scanning.walked, before |-> Machine]
    /\ scanning' = PyNone
    /\ ops' = MaxOps
    /\ UNCHANGED <<world, use_trash_cfg, HAS_TRASH_CLI, action_feedback, artifact, ext>>

\* the other process applies everything, or one id
RaceSelections ==
    {x \in Selections(artifact) : x.kind = "list" => Len(x.elems) <= 1}

NextRace ==
    \/ \E p \in Paths : ops < MaxRaceOps /\ ExternalDelete(p)
    \/ ScanWalk
    \/ ScanWrite
    \/ /\ ops < MaxRaceOps
       /\ \E suggestion_ids \in RaceSelections, dry_run \in BOOLEAN :
              Apply(suggestion_ids, dry_run)

SpecRace == InitRace /\ [][NextRace]_vars

\* The artifact and the store as inputs: the file as any array of records a
\* JSON parser accepts, the store as left by a scan of files of any content.

\* the file written by suggest after the first scan of the full machine
SavedFile ==
    LET c == collect_all(<<>>, <<>>, 1, Paths, Pkgs, journal_max_bytes + 1, PyNone,
                         NoScanFault)
    IN _save_suggestions_to_file(
           <<>>, generate_suggestions(analyze_all(c.scanned_items, c.packages, Paths)),
           FALSE)

\* records of an artifact: those suggest writes, one of a type no branch
\* names, one whose payload is a number, and one that is no object
LoadRecords ==
    Range(SavedFile)
    \cup {[SavedFile[1] EXCEPT !.suggestion_type = "LARGE_DIR"],
          [SavedFile[1] EXCEPT !.data = JNumber(1)],
          JNumber(1)}

\* the item rows after a scan of the files of S with the contents a
StoreOf(S, a) ==
    LET walk == SelectWhere(WalkOrder, S)
        items == [i \in DOMAIN walk |->
                     ScannedItem(walk[i], a[walk[i]].size, StatAtime(walk[i]),
                                 ITEM_TYPE_FILE, a[walk[i]].hash)]
    IN _mark_duplicates_in_db(UpsertItems(<<>>, items, 1), duplicate_min_bytes)

InitInputs ==
    /\ trash = {}
    /\ unlinked = {}
    /\ installed = Pkgs
    /\ journalSize = journal_max_bytes + 1
    /\ use_trash_cfg \in BOOLEAN
    /\ HAS_TRASH_CLI \in BOOLEAN
    /\ packages = <<>>
    /\ action_feedback = <<>>
    /\ scanning = PyNone
    /\ last = [op |-> "init"]
    /\ ops = MaxOps - 1
    /\ ext = 0
    /\ \/ /\ artifact \in SeqsUpTo(LoadRecords, MaxRecords)
          /\ fs = Paths
          /\ scan_history = <<>>
          /\ scanned_items = <<>>
       \/ /\ artifact = <<>>
          /\ \E S \in SUBSET UserFiles, F \in SUBSET UserFiles :
                \E a \in [S -> Contents] :
                   /\ fs = F \cup CacheFiles \cup {JournalDir}
                   /\ scan_history = <<[scan_id |-> 1, ended |-> TRUE,
                                        items_found |-> Cardinality(S),
                                        errors |-> PyNone]>>
                   /\ scanned_items = StoreOf(S, a)
       \/ /\ artifact = <<>>
          /\ scan_history = <<[scan_id |-> 1, ended |-> TRUE, items_found |-> 2,
                               errors |-> PyNone]>>
          /\ scanned_items =
                 UpsertItems(<<>>, _scan_filesystem(SocketWalk, Range(SocketWalk),
                                                    duplicates_enabled,
                                                    duplicate_min_bytes), 1)
          /\ fs \in {Range(SocketWalk), {HomeSocket}}
       \/ /\ artifact = <<>>
          /\ \E S \in SUBSET Range(CacheStock) :
                /\ fs = UserFiles \cup S \cup {JournalDir}
                /\ scan_history = <<[scan_id |-> 1, ended |-> TRUE,
                                     items_found |-> Cardinality(S),
                                     errors |-> PyNone]>>
                /\ scanned_items =
                       UpsertItems(<<>>, _collect_pacman_cache_info(CacheStock, S), 1)
       \* package files arrived in the cache after a suggest, then a rescan
       \/ \E S1 \in SUBSET Range(CacheStock), S2 \in SUBSET Range(CacheStock) :
             /\ S1 \subseteq S2 /\ S1 # S2
             /\ fs = UserFiles \cup S2 \cup {JournalDir}
             /\ scan_history = <<[scan_id |-> 1, ended |-> TRUE,
                                  items_found |-> Cardinality(S1), errors |-> PyNone],
                                 [scan_id |-> 2, ended |-> TRUE,
                                  items_found |-> Cardinality(S2), errors |-> PyNone]>>
             /\ \E t1 \in {UpsertItems(<<>>, _collect_pacman_cache_info(CacheStock, S1),
                                        1)} :
                   /\ artifact = suggest(<<>>, t1, <<>>, UserFiles \cup S1 \cup {JournalDir},
                                         0, FALSE, FALSE).saved
                   /\ scanned_items =
                          UpsertItems(t1, _collect_pacman_cache_info(CacheStock, S2), 2)

\* CoreController.get_last_suggestions, called directly
LoadArtifact ==
    /\ ops < MaxOps
    /\ last' = [op |-> "load", file |-> artifact,
                raised |-> get_last_suggestions_raises(artifact),
                suggestions |-> get_last_suggestions(artifact),
                failed_count |-> IF get_last_suggestions_raises(artifact) THEN 0
                                 ELSE failed_count(artifact)]
    /\ ops' = ops + 1
    /\ UNCHANGED scanning
    /\ UNCHANGED <<world, store, use_trash_cfg, HAS_TRASH_CLI, artifact, ext>>

\* AnalysisEngine.analyze_all, called directly
Analyze ==
    /\ ops < MaxOps
    /\ last' = [op |-> "analyze",
                analysis |-> analyze_all(scanned_items, packages, fs)]
    /\ ops' = ops + 1
    /\ UNCHANGED scanning
    /\ UNCHANGED <<world, store, use_trash_cfg, HAS_TRASH_CLI, artifact, ext>>

NextInputs ==
    \/ LoadArtifact
    \/ Analyze
    \/ \E limit \in 0..MaxLimit : Suggest(limit, FALSE, FALSE)
    \/ /\ ops < MaxOps
       /\ \E suggestion \in ExecInputs, dry_run \in BOOLEAN : Execute(suggestion, dry_run)

SpecInputs == InitInputs /\ [][NextInputs]_vars

\* The executor handed a suggestion its caller has held for a while: the
\* list suggest returned when every path of the store still existed.
HeldInputs ==
    Range(generate_suggestions(analyze_all(scanned_items, packages,
                                           fs \cup RowPaths(scanned_items))))

NextHeld ==
    /\ ops < MaxOps
    /\ \E suggestion \in HeldInputs, dry_run \in BOOLEAN : Execute(suggestion, dry_run)

SpecHeld == InitInputs /\ [][NextHeld]_vars


----------------------------------------------------------------------------
(* Properties.                                                             *)

NoFailure == [failOn |-> {}, raiseOn |-> {}, cmdFail |-> {}]

\* the isinstance test at the head of the handler of the suggestion's type
HandlerAccepts(s) ==
    IF s.suggestion_type \in {SUGGESTION_OLD_FILE, SUGGESTION_LARGE_FILE}
        THEN s.data.kind = "ScannedItem"
    ELSE IF s.suggestion_type = SUGGESTION_ORPHAN_PACKAGE
        THEN IsListOf(s.data, "PackageInfo")
    ELSE IF s.suggestion_type = SUGGESTION_DUPLICATE_SET
        THEN s.data.kind = "DuplicateSet" /\ Len(s.data.paths) >= 2
    ELSE IF s.suggestion_type = SUGGESTION_PACMAN_CACHE
        THEN IsListOf(s.data, "Path")
    ELSE IF s.suggestion_type = SUGGESTION_JOURNAL_LOG
        THEN s.data.kind = "dict"
    ELSE FALSE

ResultIds(results) == [i \in DOMAIN results |-> results[i].suggestion.id]

\* C1: every suggestion generate_suggestions emits, of any of the six types,
\* has as id the hash of its own suggestion_type and its own details.
C1_IdIsHashOfTypeAndDetails ==
    last.op = "suggest" =>
        \A i \in DOMAIN last.generated :
            last.generated[i].id =
                _generate_suggestion_id(last.generated[i].suggestion_type,
                                        last.generated[i].details)

\* C2: every suggestion suggest wrote to the artifact is read back by
\* get_last_suggestions with the same id and type and a payload its handler
\* accepts, so that executing the loaded suggestion does what executing the
\* generated one does.
C2_ArtifactRoundTrip ==
    (last.op = "suggest" /\ ~last.raised /\ ~last.io_error) =>
        LET loaded == get_last_suggestions(artifact)
            useTrash == use_trash(use_trash_cfg, HAS_TRASH_CLI)
        IN \A i \in DOMAIN last.generated :
              \E j \in DOMAIN loaded :
                  /\ loaded[j].id = last.generated[i].id
                  /\ loaded[j].suggestion_type = last.generated[i].suggestion_type
                  /\ HandlerAccepts(loaded[j])
                  /\ execute_suggestion(Machine, loaded[j], FALSE, useTrash, NoFailure).m
                     = execute_suggestion(Machine, last.generated[i], FALSE, useTrash,
                                          NoFailure).m

\* C3: a dry-run apply leaves the item and package rows, the feedback log and
\* the filesystem as they were, and the same dry-run apply run again right
\* after it returns the same results and leaves the same row counts.
C3_DryRunApplyChangesNothing ==
    (last.op = "apply" /\ last.dry_run) =>
        /\ Machine = last.before
        /\ action_feedback = last.feedback_before
        /\ LET again == apply(Machine, action_feedback, artifact, last.suggestion_ids,
                              TRUE, use_trash(use_trash_cfg, HAS_TRASH_CLI), last.env)
           IN /\ again.results = last.results
              /\ Len(again.m.scanned_items) = Len(last.before.scanned_items)
              /\ Len(again.m.packages) = Len(last.before.packages)

\* a dry-run apply that simulated the removal of a file that exists
C3_Witness ==
    /\ last.op = "apply" /\ last.dry_run
    /\ \E i \in DOMAIN last.results :
          /\ last.results[i].success
          /\ last.results[i].suggestion.suggestion_type = SUGGESTION_OLD_FILE
          /\ last.results[i].suggestion.data.path \in fs

\* C4: while safety.use_trash is not set to false, no executed suggestion
\* removes a file permanently (unlink, rmtree, rm).
C4_NoPermanentRemovalByDefault ==
    use_trash_cfg => unlinked = {}

\* C5: with trash enabled and available, when trash-put fails on a path that
\* exists, _safe_delete reports failure, the path still exists, and nothing
\* was unlinked.
C5_TrashFailureIsFailure ==
    /\ \A p \in fs :
          LET d == _safe_delete(Machine, p, FALSE, TRUE,
                                [failOn |-> {p}, raiseOn |-> {}, cmdFail |-> {}])
          IN ~d.success /\ ~d.raised /\ [d.m EXCEPT !.commands = <<>>] = Machine
    /\ (/\ last.op = "execute" /\ ~last.dry_run
        /\ use_trash(use_trash_cfg, HAS_TRASH_CLI)
        /\ last.suggestion.suggestion_type \in {SUGGESTION_OLD_FILE, SUGGESTION_LARGE_FILE}
        /\ last.suggestion.data.kind = "ScannedItem"
        /\ last.suggestion.data.path \in last.before.fs
        /\ last.suggestion.data.path \in last.env.failOn
        /\ last.suggestion.data.path \notin last.env.raiseOn)
       => /\ ~last.result.success
          /\ last.suggestion.data.path \in fs
          /\ last.suggestion.data.path \notin unlinked \cup trash
          /\ Machine = last.before

\* an executed file suggestion whose trash-put failed
C5_Witness ==
    /\ last.op = "execute" /\ ~last.dry_run
    /\ use_trash(use_trash_cfg, HAS_TRASH_CLI)
    /\ last.suggestion.suggestion_type = SUGGESTION_OLD_FILE
    /\ last.suggestion.data.kind = "ScannedItem"
    /\ last.suggestion.data.path \in last.before.fs
    /\ last.suggestion.data.path \in last.env.failOn
    /\ last.suggestion.data.path \notin last.env.raiseOn

\* C6: no two item rows share a path; a scan that runs to its end replaces
\* the row of every path it finds again; a scan that directly follows such a
\* scan leaves the number of item rows unchanged.
C6_PathIsUnique ==
    /\ \A i, j \in DOMAIN scanned_items :
          scanned_items[i].path = scanned_items[j].path => i = j
    /\ (last.op = "scan" /\ last.env = NoScanFault) =>
          \A i \in DOMAIN scanned_items :
              scanned_items[i].path \in fs => scanned_items[i].scan_id = last.scan_id
    /\ (last.op = "scan" /\ last.rescan) => Len(scanned_items) = last.rows_before

\* a second scan over stored rows
C6_Witness ==
    /\ last.op = "scan" /\ last.rescan /\ last.env = NoScanFault
    /\ last.rows_before > 0
    /\ Len(scan_history) >= 2

\* C7: after a suggest call the artifact is exactly the list that call
\* generated (the empty list if analysis failed), whatever the limit.
C7_ArtifactIsThisCallsList ==
    last.op = "suggest" =>
        artifact = _save_suggestions_to_file(<<>>, last.generated, FALSE)

\* C8: a real apply appends one feedback entry per executed suggestion, with
\* its id, type, details and APPROVED or EXECUTION_FAILED; a dry run appends
\* none.
C8_OneFeedbackEntryPerExecuted ==
    last.op = "apply" =>
        IF last.dry_run THEN action_feedback = last.feedback_before
        ELSE /\ Len(action_feedback) = Len(last.feedback_before) + Len(last.results)
             /\ \A i \in DOMAIN last.results :
                   LET e == action_feedback[Len(last.feedback_before) + i]
                       r == last.results[i]
                   IN /\ e.suggestion_id = r.suggestion.id
                      /\ e.suggestion_type = r.suggestion.suggestion_type
                      /\ e.item_details = r.suggestion.details
                      /\ e.action_taken = IF r.success THEN "APPROVED"
                                          ELSE "EXECUTION_FAILED"

\* the handler of the suggestion raised
HandlerThrew(s, env) == HandlerAccepts(s) /\ TouchedPaths(s) \cap env.raiseOn # {}

\* C9: execute_suggestion lets no exception out and returns one ActionResult
\* for the suggestion; for an unknown type, a payload of the wrong shape or a
\* handler that raised, the result is a failure that says which.
C9_ExecuteNeverRaises ==
    last.op = "execute" =>
        /\ ~last.raised
        /\ last.result = ActionResult(last.suggestion, last.result.success,
                                      last.result.message, last.result.bytes_freed,
                                      last.dry_run)
        /\ last.suggestion.suggestion_type \notin SuggestionTypes
              => /\ ~last.result.success
                 /\ Head(last.result.message) = "Unsupported suggestion type"
        /\ (/\ last.suggestion.suggestion_type \in SuggestionTypes
            /\ ~HandlerAccepts(last.suggestion))
              => /\ ~last.result.success
                 /\ Head(last.result.message) \in
                       {"Invalid data type for OLD_FILE",
                        "Invalid data type for ORPHAN_PACKAGE",
                        "Invalid data type or insufficient files for DUPLICATE_SET",
                        "Invalid data type for PACMAN_CACHE",
                        "Invalid data type for JOURNAL_LOG"}
        /\ HandlerThrew(last.suggestion, last.env)
              => /\ ~last.result.success
                 /\ Head(last.result.message) = "Execution error"

\* an executed suggestion whose handler raised
C9_Witness ==
    /\ last.op = "execute"
    /\ HandlerThrew(last.suggestion, last.env)

\* C10: apply returns one ActionResult per selected suggestion that is in the
\* artifact, in selection order (in artifact order when nothing is selected).
C10_OneResultPerSelected ==
    (last.op = "apply"
     /\ (last.suggestion_ids.kind = "list" => last.suggestion_ids.elems # <<>>)) =>
        ResultIds(last.results) =
            IF last.suggestion_ids.kind = "list"
            THEN SelectWhere(last.suggestion_ids.elems,
                             {last.file[i].id : i \in DOMAIN last.file})
            ELSE [i \in DOMAIN last.file |-> last.file[i].id]



\* the keys of the batch the step of the scan recorded in `last` hands to the
\* store: paths of items, names of packages
ScanBatch(step) ==
    LET b == last.before
        PathsOf(items) == {items[i].path : i \in DOMAIN items}
    IN CASE step = "fs" ->
              PathsOf(_scan_filesystem(WalkOrder, b.fs, duplicates_enabled,
                                       duplicate_min_bytes))
         [] step = "pkg" ->
              {pk.name : pk \in Range(_collect_package_info(PacmanOrder, b.installed))}
         [] step = "cache" -> PathsOf(_collect_pacman_cache_info(GlobOrder, b.fs))
         [] step = "journal" -> PathsOf(_collect_journal_info(b.fs, b.journalSize))

\* the row of the scan epoch the scan recorded in `last` opened
ScanEpoch == scan_history[last.scan_id]

\* C11: when a batch upsert of a scan fails, the error reaches collect_all and
\* the scan epoch's error text is not empty.
C11_BatchFailureIsRecorded ==
    (/\ last.op = "scan"
     /\ last.env.sql_error # "none"
     /\ ScanBatch(last.env.sql_error) # {})
    => (ScanEpoch.ended /\ ScanEpoch.errors # PyNone)


\* the rows of the batch's table that carry the scan id of the scan in `last`
EpochKeys(step) ==
    IF step = "pkg"
    THEN {packages[i].name : i \in {j \in DOMAIN packages :
                                       packages[j].scan_id = last.scan_id}}
    ELSE {scanned_items[i].path : i \in {j \in DOMAIN scanned_items :
                                            scanned_items[j].scan_id = last.scan_id}}

\* C12: after a scan, whether it ran to its end, had a batch write fail or was
\* killed at any step, every batch it handed to the store is written entirely
\* or not at all, and no two rows share a path (or a package name).
C12_BatchesAreAtomic ==
    /\ \A i, j \in DOMAIN scanned_items :
          scanned_items[i].path = scanned_items[j].path => i = j
    /\ \A i, j \in DOMAIN packages : packages[i].name = packages[j].name => i = j
    /\ last.op = "scan" =>
          \A step \in {"fs", "pkg", "cache", "journal"} :
              \/ ScanBatch(step) \subseteq EpochKeys(step)
              \/ ScanBatch(step) \cap EpochKeys(step) = {}

\* a scan over stored rows that is killed while it collects the pacman cache:
\* the filesystem and package batches are written, the cache batch is not
C12_Witness ==
    /\ last.op = "scan" /\ last.env.killed = "cache"
    /\ last.rows_before > 0
    /\ Cardinality(ScanBatch("fs")) >= 2 /\ ScanBatch("fs") \subseteq EpochKeys("fs")
    /\ ScanBatch("cache") # {} /\ ScanBatch("cache") \cap EpochKeys("cache") = {}
    /\ ~ScanEpoch.ended


C14_TargetedScanIsConfined ==
    (last.op = "scan" /\ last.directory.kind = "Path") =>
        /\ EpochKeys("pkg") = {}
        /\ \A p \in EpochKeys("fs") : p \in UserFiles /\ DirOf(p) = last.directory.path


\* the records of the file a loader that skips bad records one by one returns
WellFormed(file) == {i \in DOMAIN file : file[i] \in Range(SavedFile)}

\* C15: loading an artifact that is a JSON array never lets an exception out:
\* the records suggest wrote are returned, every other record is skipped and
\* counted.
C15_LoadSkipsBadRecords ==
    last.op = "load" =>
        /\ ~last.raised
        /\ Len(last.suggestions) = Cardinality(WellFormed(last.file))
        /\ last.failed_count = Len(last.file) - Cardinality(WellFormed(last.file))
        /\ \A i \in WellFormed(last.file) : last.file[i].id \in IdsOf(last.suggestions)


\* the file items of the store, as analyze_all reads them
AllFiles == get_scanned_items(scanned_items, ITEM_TYPE_FILE)

\* C16: a file item is in old_files exactly when its last access is strictly
\* before now - old_file_seconds: at the cutoff it is not old, one second
\* earlier it is.
C16_OldFileBoundary ==
    last.op = "analyze" =>
        /\ Range(last.analysis.old_files) \subseteq Range(AllFiles)
        /\ \A i \in DOMAIN AllFiles :
              AllFiles[i] \in Range(last.analysis.old_files)
                  <=> AllFiles[i].last_accessed < Now - old_file_seconds

\* the store holds a file accessed at the cutoff and one accessed a second
\* before it: only the second is old
C16_Witness ==
    /\ last.op = "analyze"
    /\ \E i, j \in DOMAIN AllFiles :
          /\ AllFiles[i].last_accessed = Now - old_file_seconds
          /\ AllFiles[j].last_accessed = Now - old_file_seconds - 1
          /\ AllFiles[i] \notin Range(last.analysis.old_files)
          /\ last.analysis.old_files = <<AllFiles[j]>>

ExistingMembers(g) ==
    {scanned_items[i].path : i \in {j \in DOMAIN scanned_items :
        /\ scanned_items[j].file_hash = g.file_hash
        /\ scanned_items[j].size_bytes = g.size_bytes
        /\ scanned_items[j].path \in fs}}

\* C18: every DuplicateSet of an analysis has at least two paths, all of them
\* existing, and a total size of size_bytes times the number of paths; a stored
\* group of which at most one member still exists yields no DuplicateSet.
C18_DuplicateSetsAreValid ==
    last.op = "analyze" =>
        LET sets == last.analysis.duplicate_sets
        IN /\ \A i \in DOMAIN sets :
                 /\ Len(sets[i].paths) >= 2
                 /\ Range(sets[i].paths) \subseteq fs
                 /\ \A a, b \in DOMAIN sets[i].paths :
                       sets[i].paths[a] = sets[i].paths[b] => a = b
                 /\ sets[i].total_size_bytes = sets[i].size_bytes * Len(sets[i].paths)
           /\ \A g \in Range(find_potential_duplicates(scanned_items,
                                                       duplicate_min_bytes)) :
                 Cardinality(ExistingMembers(g)) <= 1 =>
                     \A i \in DOMAIN sets : sets[i].file_hash # g.file_hash

\* three stored copies of which one is gone: a set of the two that exist
C18_Witness ==
    /\ last.op = "analyze"
    /\ \E g \in Range(find_potential_duplicates(scanned_items, duplicate_min_bytes)) :
          /\ g.count = 3
          /\ Cardinality(ExistingMembers(g)) = 2
          /\ Len(last.analysis.duplicate_sets) = 1
          /\ Range(last.analysis.duplicate_sets[1].paths) = ExistingMembers(g)
          /\ last.analysis.duplicate_sets[1].total_size_bytes = 2 * g.size_bytes


\* C19: with a threshold of one second, suggest yields for every stored file
\* last accessed two seconds ago an OLD_FILE suggestion whose confidence lies
\* strictly between 0.5 and 0.9.
C19_ScenarioBConfidence ==
    (last.op = "suggest" /\ ~last.raised /\ old_file_seconds = 1) =>
        \A i \in DOMAIN AllFiles :
            AllFiles[i].last_accessed = Now - 2 =>
                \E k \in DOMAIN last.generated :
                    /\ last.generated[k].suggestion_type = SUGGESTION_OLD_FILE
                    /\ last.generated[k].data = AllFiles[i]
                    /\ last.generated[k].confidence > Confidence(50)
                    /\ last.generated[k].confidence < Confidence(90)


\* C20: a DUPLICATE_SET suggestion over n >= 2 existing paths estimates
\* (n - 1) * size_bytes; executed for real with every removal succeeding, it
\* removes the n - 1 paths after the first, keeps the first, and returns
\* success with bytes_freed = (n - 1) * size_bytes.
C20_DuplicateSetExecution ==
    (/\ last.op = "execute" /\ ~last.dry_run
     /\ last.suggestion.suggestion_type = SUGGESTION_DUPLICATE_SET
     /\ last.suggestion.data.kind = "DuplicateSet"
     /\ Len(last.suggestion.data.paths) >= 2
     /\ Range(last.suggestion.data.paths) \subseteq last.before.fs
     /\ last.env = NoFailure)
    => LET dup_set == last.suggestion.data
           n == Len(dup_set.paths)
           removed == Range(Tail(dup_set.paths))
       IN /\ last.suggestion.estimated_size_bytes = (n - 1) * dup_set.size_bytes
          /\ Cardinality(removed) = n - 1
          /\ fs = last.before.fs \ removed
          /\ dup_set.paths[1] \in fs
          /\ ~last.raised
          /\ last.result.success
          /\ last.result.bytes_freed = (n - 1) * dup_set.size_bytes

\* a set of three copies executed for real: two are removed, the first stays
C20_Witness ==
    /\ last.op = "execute" /\ ~last.dry_run
    /\ last.suggestion.suggestion_type = SUGGESTION_DUPLICATE_SET
    /\ last.suggestion.data.kind = "DuplicateSet"
    /\ Len(last.suggestion.data.paths) = 3
    /\ last.env = NoFailure
    /\ Cardinality(last.before.fs \ fs) = 2
    /\ last.suggestion.data.paths[1] \in fs
    /\ last.result.success
    /\ last.result.bytes_freed = 2 * last.suggestion.data.size_bytes


\* the pacman cache items of the store, as analyze_all reads them
CacheItems == get_scanned_items(scanned_items, ITEM_TYPE_PACMAN_CACHE)

\* the cache files that have at least max(1, pacman_cache_keep) files of the
\* same package with a greater version string
Candidates ==
    {CacheItems[i].path : i \in {j \in DOMAIN CacheItems :
        Cardinality({k \in DOMAIN CacheItems :
            /\ PkgFileName(CacheItems[k].path) = PkgFileName(CacheItems[j].path)
            /\ PkgFileVersion(CacheItems[k].path) > PkgFileVersion(CacheItems[j].path)})
        >= Max2(1, pacman_cache_keep)}}

RECURSIVE SumOfSizes(_)
SumOfSizes(paths) ==
    IF paths = {} THEN 0
    ELSE LET p == CHOOSE q \in paths : TRUE
             i == CHOOSE j \in DOMAIN CacheItems : CacheItems[j].path = p
         IN CacheItems[i].size_bytes + SumOfSizes(paths \ {p})

\* the PACMAN_CACHE suggestions of the list suggest generated
CacheSuggestions ==
    SelectSeq(last.generated, LAMBDA g : g.suggestion_type = SUGGESTION_PACMAN_CACHE)

\* C21: the files suggest proposes to remove from the pacman cache are, for
\* every package, exactly those beyond the first max(1, pacman_cache_keep) in
\* descending version order; there is one PACMAN_CACHE suggestion whose
\* estimated size is the sum of their sizes, and none when there is no such
\* file.
C21_CacheCandidates ==
    (last.op = "suggest" /\ ~last.raised) =>
        /\ Candidates = {} => CacheSuggestions = <<>>
        /\ Candidates # {} =>
              /\ Len(CacheSuggestions) = 1
              /\ CacheSuggestions[1].data.kind = "list"
              /\ {e.path : e \in Range(CacheSuggestions[1].data.elems)} = Candidates
              /\ Len(CacheSuggestions[1].data.elems) = Cardinality(Candidates)
              /\ CacheSuggestions[1].estimated_size_bytes = SumOfSizes(Candidates)

\* three versions of pkg and one of q in the cache: the two older versions of
\* pkg are proposed, the newest and the only file of q are not
C21_Witness ==
    /\ last.op = "suggest" /\ ~last.raised
    /\ Len(CacheItems) = 4
    /\ Candidates = {"c10", "c11"}
    /\ Len(CacheSuggestions) = 1
    /\ CacheSuggestions[1].estimated_size_bytes = 2


\* a real execution of a DUPLICATE_SET suggestion whose handler runs its loop
DuplicateSetRun ==
    /\ last.op = "execute" /\ ~last.dry_run
    /\ last.suggestion.suggestion_type = SUGGESTION_DUPLICATE_SET
    /\ last.suggestion.data.kind = "DuplicateSet"
    /\ Len(last.suggestion.data.paths) >= 2

\* the positions of paths_to_remove whose removal succeeded: the loop reached
\* them and the path was already gone or its removal did not fail
RemovedPositions ==
    LET paths == last.suggestion.data.paths
    IN {i \in 2..Len(paths) :
           /\ \A k \in 2..i : paths[k] \notin last.env.raiseOn
           /\ paths[i] \notin last.before.fs \/ paths[i] \notin last.env.failOn}

\* C22: a real execution of a DUPLICATE_SET suggestion over n paths succeeds
\* exactly when each of the n - 1 removals succeeded, and the store loses
\* exactly the rows of the paths whose removal succeeded: the rows of the
\* failed ones and of the first path stay.
C22_DuplicateSetPartialFailure ==
    DuplicateSetRun =>
        LET paths == last.suggestion.data.paths
            removed == {paths[i] : i \in RemovedPositions}
        IN /\ last.result.success <=> RemovedPositions = 2..Len(paths)
           /\ scanned_items =
                 SelectSeq(last.before.scanned_items, LAMBDA row : row.path \notin removed)
           /\ packages = last.before.packages

\* three copies, the removal of one of the two later ones fails: no success,
\* one row gone, the rows of the kept and of the failed path still there
C22_Witness ==
    /\ DuplicateSetRun
    /\ Len(last.suggestion.data.paths) = 3
    /\ Range(last.suggestion.data.paths) \subseteq last.before.fs
    /\ Cardinality(RemovedPositions) = 1
    /\ ~last.result.success
    /\ Len(scanned_items) = Len(last.before.scanned_items) - 1
    /\ \E i \in DOMAIN scanned_items :
          scanned_items[i].path = last.suggestion.data.paths[1]
    /\ \E i \in DOMAIN scanned_items :
          scanned_items[i].path \in last.env.failOn


\* a real execution of an ORPHAN_PACKAGE suggestion that names packages
OrphanRun ==
    /\ last.op = "execute" /\ ~last.dry_run
    /\ last.suggestion.suggestion_type = SUGGESTION_ORPHAN_PACKAGE
    /\ IsListOf(last.suggestion.data, "PackageInfo")
    /\ last.suggestion.data.elems # <<>>

\* a real execution of a PACMAN_CACHE suggestion that lists paths
CacheRun ==
    /\ last.op = "execute" /\ ~last.dry_run
    /\ last.suggestion.suggestion_type = SUGGESTION_PACMAN_CACHE
    /\ IsListOf(last.suggestion.data, "Path")
    /\ last.suggestion.data.elems # <<>>

\* C23: the orphan-package handler and the pacman-cache handler each issue one
\* external command carrying the whole list; when it exits non-zero the result
\* is a failure and the store is as before; when it exits 0 the result is a
\* success and the row of every named package, or of every listed path, is
\* gone from the store.
C23_BatchedCommandHandlers ==
    /\ OrphanRun =>
          LET names == Names(last.suggestion.data.elems)
          IN /\ last.commands = <<[cmd |-> "pacman", args |-> names]>>
             /\ scanned_items = last.before.scanned_items
             /\ "pacman" \in last.env.cmdFail =>
                   /\ ~last.result.success
                   /\ packages = last.before.packages
             /\ "pacman" \notin last.env.cmdFail =>
                   /\ last.result.success
                   /\ packages = SelectSeq(last.before.packages,
                                           LAMBDA row : row.name \notin Range(names))
    /\ CacheRun =>
          LET paths == [i \in DOMAIN last.suggestion.data.elems |->
                           last.suggestion.data.elems[i].path]
          IN /\ last.commands = <<[cmd |-> "rm", args |-> paths]>>
             /\ packages = last.before.packages
             /\ "rm" \in last.env.cmdFail =>
                   /\ ~last.result.success
                   /\ scanned_items = last.before.scanned_items
             /\ "rm" \notin last.env.cmdFail =>
                   /\ last.result.success
                   /\ scanned_items = SelectSeq(last.before.scanned_items,
                                                LAMBDA row : row.path \notin Range(paths))

\* one pacman command naming two orphans exits 0: their rows are gone
C23_Witness ==
    /\ OrphanRun
    /\ Len(last.suggestion.data.elems) = 2
    /\ last.commands = <<[cmd |-> "pacman", args |-> Names(last.suggestion.data.elems)]>>
    /\ last.result.success
    /\ Len(packages) = Len(last.before.packages) - 2


\* a real execution of an OLD_FILE or LARGE_FILE suggestion that reaches
\* _safe_delete
FileRun ==
    /\ last.op = "execute" /\ ~last.dry_run
    /\ last.suggestion.suggestion_type \in {SUGGESTION_OLD_FILE, SUGGESTION_LARGE_FILE}
    /\ last.suggestion.data.kind = "ScannedItem"

\* C24: a real execution of an OLD_FILE or LARGE_FILE suggestion touches the
\* item's path only; when it succeeds the path no longer exists and its row is
\* gone from the store; when it fails the filesystem and the store are as
\* before; no other row is touched.
C24_FileHandlersKeepStoreInSync ==
    FileRun =>
        LET p == last.suggestion.data.path
        IN /\ last.before.fs \ fs \subseteq {p}
           /\ fs \subseteq last.before.fs
           /\ packages = last.before.packages
           /\ last.result.success =>
                 /\ p \notin fs
                 /\ scanned_items = SelectSeq(last.before.scanned_items,
                                              LAMBDA row : row.path # p)
           /\ ~last.result.success =>
                 /\ fs = last.before.fs
                 /\ scanned_items = last.before.scanned_items

\* C24 for the paths that are regular files
C24_RegularFilesKeepStoreInSync ==
    (FileRun /\ is_file(last.suggestion.data.path)) => C24_FileHandlersKeepStoreInSync


\* the same suggestion executed again from the present state, with the
\* outside world answering env
ExecutedAgain(env) ==
    execute_suggestion(Machine, last.suggestion, FALSE,
                       use_trash(use_trash_cfg, HAS_TRASH_CLI), env)

\* the answers of the outside world in which Path.resolve() does not raise
AgainEnvs == {env \in Envs(<<last.suggestion>>, FALSE) : env.raiseOn = {}}

C26_AutoRespectsMinConfidence ==
    last.op = "auto" =>
        /\ \A i \in DOMAIN last.results :
              last.results[i].suggestion.confidence >= last.min_confidence
        /\ (\A i \in DOMAIN last.suggestions :
               last.suggestions[i].confidence < last.min_confidence)
           => /\ last.results = <<>>
              /\ fs = last.before.fs
              /\ trash = last.before.trash
              /\ unlinked = last.before.unlinked
              /\ installed = last.before.installed
              /\ journalSize = last.before.journalSize
              /\ action_feedback = last.feedback_before

\* a real run under a threshold that the OLD_FILE suggestions reach and the
\* LARGE_FILE suggestion does not: an old file is removed, the large one stays
C26_Witness ==
    /\ last.op = "auto" /\ ~last.dry_run
    /\ \E i \in DOMAIN last.results :
          /\ last.results[i].success
          /\ last.results[i].suggestion.suggestion_type = SUGGESTION_OLD_FILE
          /\ last.results[i].suggestion.data.path \in last.before.fs \ fs
    /\ \E i \in DOMAIN last.suggestions :
          /\ last.suggestions[i].suggestion_type = SUGGESTION_LARGE_FILE
          /\ last.suggestions[i].confidence < last.min_confidence
          /\ last.suggestions[i].data.path \in fs

\* C27: an unattended dry run leaves the store (scan epochs, item rows,
\* package rows), the artifact, the feedback log and the filesystem as they
\* were before the call.
C27_AutoDryRunChangesNothing ==
    (last.op = "auto" /\ last.dry_run) =>
        /\ Machine = last.before
        /\ scan_history = last.history_before
        /\ artifact = last.file_before
        /\ action_feedback = last.feedback_before

\* what an unattended dry run does leave alone: the filesystem, the installed
\* packages, the journal and the feedback log
C27_AutoDryRunLeavesTheWorld ==
    (last.op = "auto" /\ last.dry_run) =>
        /\ fs = last.before.fs /\ trash = last.before.trash
        /\ unlinked = last.before.unlinked /\ installed = last.before.installed
        /\ journalSize = last.before.journalSize
        /\ action_feedback = last.feedback_before


\* C28: under the default threshold string the analyzer's old_file_seconds is
\* 90 days, the value it falls back to for an invalid string, and a file
\* accessed less than 90 days ago is not classified old.
C28_DefaultOldFileIsThreeMonths ==
    (last.op = "engine" /\ last.old_file = DEFAULT_old_file) =>
        /\ last.old_file_seconds = 90 * 86400
        /\ last.old_file_seconds = engine_old_file_seconds(DurationStr(3, "x"))
        /\ last.age < 90 * 86400 => ~last.old

\* the same under the string "3month"
C28_ThreeMonthStringIsNinetyDays ==
    (last.op = "engine" /\ last.old_file = DurationStr(3, "month")) =>
        /\ last.old_file_seconds = 90 * 86400
        /\ last.age < 90 * 86400 => ~last.old


\* the estimated sizes of a list of suggestions or of artifact records
EstimatedSizes(list) == [i \in DOMAIN list |-> list[i].estimated_size_bytes]

NonIncreasing(sizes) ==
    \A i, j \in DOMAIN sizes : i < j => sizes[i] >= sizes[j]

DryRun ==
    /\ last.op = "execute" /\ last.dry_run
    /\ last.suggestion.suggestion_type \in SuggestionTypes

\* C30: in dry-run mode execute_suggestion returns, for every suggestion whose
\* type has a handler, an ActionResult with success = true and dry_run = true.
C30_DryRunAlwaysSucceeds ==
    DryRun => /\ last.result.success
              /\ last.result.dry_run

\* what does hold of a dry run: the result is marked dry_run, nothing is
\* changed, and it is a success when the handler accepts the payload and
\* Path.resolve() does not raise
C30_DryRunOfAcceptedPayloadSucceeds ==
    DryRun =>
        /\ last.result.dry_run
        /\ Machine = last.before
        /\ (HandlerAccepts(last.suggestion) /\ last.env.raiseOn = {})
              => last.result.success

\* a DUPLICATE_SET suggestion loaded from the artifact, refused in a dry run
\* in which nothing outside the program goes wrong
C30_RefusedInDryRun ==
    /\ DryRun
    /\ last.env = NoFailure
    /\ last.suggestion.suggestion_type = SUGGESTION_DUPLICATE_SET
    /\ last.suggestion \in Range(get_last_suggestions(artifact))
    /\ ~last.result.success

\* C31: no apply, dry-run or real, successful or failed, creates, removes or
\* alters a record of the suggestion artifact: what a later invocation reads
\* from it is what apply itself read.
C31_ApplyLeavesTheArtifact ==
    last.op = "apply" => artifact = last.file

\* C31, for the applies that remove nothing at suggestions_path: the artifact
\* is as it was.
C31_ApplyNeverWritesTheArtifact ==
    (last.op = "apply" /\ (SuggestionsPath \in last.before.fs => SuggestionsPath \in fs))
        => artifact = last.file

\* the apply that removed last_suggestions.json as an old file
C31_ArtifactRemoved ==
    /\ last.op = "apply"
    /\ ~last.dry_run
    /\ \E i \in DOMAIN last.results :
          /\ last.results[i].success
          /\ last.results[i].suggestion.suggestion_type = SUGGESTION_OLD_FILE
          /\ last.results[i].suggestion.data.path = SuggestionsPath
    /\ last.file # <<>>
    /\ artifact = <<>>
\* the paths the program removed that still have a row in the store
StaleRows == RowPaths(scanned_items) \cap (trash \cup unlinked)

\* C32: run one after the other, a scan and a real apply leave no store row
\* for a path the apply deleted: such a row exists only after a scan wrote
\* the batch of a walk that saw the path before an apply of another process
\* removed it.
C32_StaleRowOnlyByInterleaving ==
    \A p \in StaleRows :
        /\ last.op = "scan_write"
        /\ p \in last.walked.fs
        /\ p \notin last.walked.trash \cup last.walked.unlinked
        /\ p \notin last.before.fs

\* the scan walked, the apply of another process deleted f1 and its row, the
\* scan wrote its batch: the store holds a row for the deleted path
C32_Witness ==
    /\ last.op = "scan_write"
    /\ "f1" \in StaleRows
    /\ "f1" \notin fs
    /\ "f1" \notin RowPaths(last.before.scanned_items)
\* the targets of a suggestion as its serialized payload names them: the
\* path, the package names, the cache-file paths, the paths of the set, the
\* vacuum target
TargetsOf(suggestion_type, data) ==
    IF data.json = "null" THEN {}
    ELSE IF suggestion_type \in {SUGGESTION_OLD_FILE, SUGGESTION_LARGE_FILE}
    THEN {data.v.path}
    ELSE IF suggestion_type = SUGGESTION_ORPHAN_PACKAGE
    THEN {data.v[i].v.name : i \in DOMAIN data.v}
    ELSE IF suggestion_type = SUGGESTION_PACMAN_CACHE
    THEN {data.v[i].v : i \in DOMAIN data.v}
    ELSE IF suggestion_type = SUGGESTION_DUPLICATE_SET
    THEN Range(data.v.paths)
    ELSE {data.v.target_size}

\* the records of the last suggest and the suggestions of this one that carry
\* the same id
SameIdPairs ==
    {<<i, j>> \in (DOMAIN last.file_before) \X (DOMAIN last.generated) :
        last.file_before[i].id = last.generated[j].id}

\* C33: two suggestions generated by two suggest invocations that carry the
\* same id have the same type and the same target set.
C33_IdDenotesSameTargets ==
    last.op = "suggest" =>
        \A pr \in SameIdPairs :
            LET old == last.file_before[pr[1]]
                new == last.generated[pr[2]]
            IN /\ old.suggestion_type = new.suggestion_type
               /\ TargetsOf(old.suggestion_type, old.data)
                      = TargetsOf(new.suggestion_type, EncodeData(new.data))

\* C33, for the suggestions about one file: the id is the hash of the type and
\* the path, and denotes that path in every run.
C33_FileIdDenotesOnePath ==
    last.op = "suggest" =>
        \A pr \in SameIdPairs :
            LET old == last.file_before[pr[1]]
                new == last.generated[pr[2]]
            IN /\ old.suggestion_type = new.suggestion_type
               /\ new.suggestion_type \in {SUGGESTION_OLD_FILE, SUGGESTION_LARGE_FILE}
                      => TargetsOf(old.suggestion_type, old.data)
                            = TargetsOf(new.suggestion_type, EncodeData(new.data))

\* the id "older_versions" stood for c10 and now stands for c10 and c11
C33_CacheIdChangedTargets ==
    /\ last.op = "suggest"
    /\ \E pr \in SameIdPairs :
          /\ last.generated[pr[2]].suggestion_type = SUGGESTION_PACMAN_CACHE
          /\ TargetsOf(SUGGESTION_PACMAN_CACHE, last.file_before[pr[1]].data) = {"c10"}
          /\ TargetsOf(SUGGESTION_PACMAN_CACHE, EncodeData(last.generated[pr[2]].data))
                 = {"c10", "c11"}
\* a DUPLICATE_SET suggestion with its payload was executed for real
DuplicateSetExecuted ==
    /\ last.op = "execute" /\ ~last.dry_run
    /\ last.suggestion.suggestion_type = SUGGESTION_DUPLICATE_SET
    /\ last.suggestion.data.kind = "DuplicateSet"

\* C34: executing a DUPLICATE_SET suggestion never destroys the last copy: if
\* a member of the set existed before the execution, a member exists after.
C34_LastCopySurvives ==
    (DuplicateSetExecuted /\ Range(last.suggestion.data.paths) \cap last.before.fs # {})
        => Range(last.suggestion.data.paths) \cap fs # {}

\* C34, when the first path of the set exists: it is never touched, so a
\* copy survives.
C34_KeptPathIsNotTouched ==
    (DuplicateSetExecuted /\ last.suggestion.data.paths[1] \in last.before.fs)
        => last.suggestion.data.paths[1] \in fs

\* the first path was gone, the execution removed the only copy left
C34_LastCopyDestroyed ==
    /\ DuplicateSetExecuted
    /\ last.suggestion.data.paths = <<"f1", "f2">>
    /\ last.before.fs \cap {"f1", "f2"} = {"f2"}
    /\ fs \cap {"f1", "f2"} = {}
    /\ last.result.success
\* the bytes the successful results of the last apply report as freed by
\* file and duplicate-set suggestions
BytesReported ==
    SumSeq([i \in DOMAIN last.results |->
               IF /\ last.results[i].success
                  /\ last.results[i].suggestion.suggestion_type
                        \in {SUGGESTION_OLD_FILE, SUGGESTION_LARGE_FILE,
                             SUGGESTION_DUPLICATE_SET}
               THEN last.results[i].bytes_freed ELSE 0])

RECURSIVE TotalSize(_)
TotalSize(paths) ==
    IF paths = {} THEN 0
    ELSE LET p == CHOOSE q \in paths : TRUE
         IN StatSize(p) + TotalSize(paths \ {p})

\* C35: over a real apply the bytes_freed of the successful results of file
\* and duplicate-set suggestions add up to at most the size of the files the
\* apply removed.
C35_BytesFreedNeverOverstates ==
    (last.op = "apply" /\ ~last.dry_run)
        => BytesReported <= TotalSize(last.before.fs \ fs)

\* C35, for the results that failed: they report no bytes.
C35_FailedResultsReportNothing ==
    last.op = "apply" =>
        \A i \in DOMAIN last.results :
            ~last.results[i].success => last.results[i].bytes_freed = 0

\* an OLD_FILE suggestion applied after its file went away: success, the
\* size of the file reported as freed, nothing removed
C35_GoneFileCounted ==
    /\ last.op = "apply" /\ ~last.dry_run
    /\ last.before.fs = fs
    /\ \E i \in DOMAIN last.results :
          /\ last.results[i].success
          /\ last.results[i].suggestion.suggestion_type = SUGGESTION_OLD_FILE
          /\ last.results[i].suggestion.data.path \notin last.before.fs
          /\ last.results[i].bytes_freed > 0
\* C36: for every id list passed to apply, the empty one included, every
\* executed suggestion has an id of that list; only None means "apply all".
C36_ApplyExecutesOnlySelected ==
    (last.op = "apply" /\ last.suggestion_ids.kind = "list")
        => \A i \in DOMAIN last.results :
              last.results[i].suggestion.id \in Range(last.suggestion_ids.elems)

\* C36, for the lists that name an id: every executed suggestion has an id of
\* the list, and a list of unknown ids executes nothing.
C36_NonEmptyListIsRespected ==
    (last.op = "apply" /\ last.suggestion_ids.kind = "list"
     /\ last.suggestion_ids.elems # <<>>)
        => /\ \A i \in DOMAIN last.results :
                 last.results[i].suggestion.id \in Range(last.suggestion_ids.elems)
           /\ (Range(last.suggestion_ids.elems) \cap IdsOf(last.file) = {})
                 => /\ last.results = <<>>
                    /\ [last.before EXCEPT !.commands = <<>>] = Machine

\* apply([]) in real mode removed a file
C36_EmptyListAppliedAll ==
    /\ last.op = "apply" /\ ~last.dry_run
    /\ last.suggestion_ids = [kind |-> "list", elems |-> <<>>]
    /\ last.results # <<>>
    /\ last.before.fs # fs
\* a full scan that completed without errors
FullScanDone ==
    /\ last.op = "scan"
    /\ last.directory = PyNone
    /\ scan_history[last.scan_id].ended
    /\ scan_history[last.scan_id].errors = PyNone

PackageNames == {packages[i].name : i \in DOMAIN packages}

\* C37: after a full scan that completed without errors every item row
\* belongs to a file present during the scan and every package row to a
\* package the scan's query reported.
C37_StoreReflectsTheScan ==
    FullScanDone => /\ RowPaths(scanned_items) \subseteq fs
                    /\ PackageNames \subseteq installed

\* C37, the other way round and on an empty store: every file and package
\* present during the scan has a row, and a scan that starts from an empty
\* store leaves no other row.
C37_ScanRecordsWhatIsPresent ==
    FullScanDone => /\ fs \subseteq RowPaths(scanned_items)
                    /\ installed \subseteq PackageNames
                    /\ (last.before.scanned_items = <<>> /\ last.before.packages = <<>>)
                          => /\ RowPaths(scanned_items) \subseteq fs
                             /\ PackageNames \subseteq installed

\* f1 went away between two scans: its row of the first scan is still there
C37_StaleRowLeftBehind ==
    /\ FullScanDone
    /\ last.scan_id = 2
    /\ "f1" \notin fs
    /\ "f1" \in RowPaths(scanned_items)
\* the row has a twin: another row with the same content hash and size
HasTwin(i) ==
    \E j \in DOMAIN scanned_items :
        /\ j # i
        /\ scanned_items[j].file_hash = scanned_items[i].file_hash
        /\ scanned_items[j].size_bytes = scanned_items[i].size_bytes

FlagsAreTruthful ==
    \A i \in DOMAIN scanned_items : scanned_items[i].is_duplicate => HasTwin(i)

\* C38: after any sequence of scans and real applies a stored item is flagged
\* is_duplicate only if another stored item has the same content hash and
\* size.
C38_DuplicateFlagIsTruthful ==
    FlagsAreTruthful

\* C38, at the end of a full scan without errors, for the rows that scan
\* wrote: a flagged row has a twin in the store.
C38_FlagIsTruthfulAfterScan ==
    FullScanDone =>
        \A i \in DOMAIN scanned_items :
            (scanned_items[i].scan_id = last.scan_id /\ scanned_items[i].is_duplicate)
                => HasTwin(i)

\* f1 and f2 were twins; a real apply removed f1 and its row; the row of f2
\* is still flagged
C38_FlagOutlivesTheTwin ==
    /\ last.op = "apply" /\ ~last.dry_run
    /\ "f1" \notin RowPaths(scanned_items)
    /\ \E i \in DOMAIN scanned_items :
          /\ scanned_items[i].path = "f2"
          /\ scanned_items[i].is_duplicate
          /\ ~HasTwin(i)
====
